---------------------------- MODULE Spec2Model ----------------------------
(***************************************************************************)
(* Model of the Taboo game server: one classic GameRoom                    *)
(* (src/server/gameRoom.js), the socket handlers and the turn timer that   *)
(* drive it (src/unnamed/part_002, "Server Entry Point"), and the card     *)
(* pool it starts from (CardStore, same file).                             *)
(*                                                                         *)
(* The GameRoom object is the record `room`; each method of the class is   *)
(* an operator from a room record to a room record, and each socket        *)
(* handler or timer callback is one action that composes them, as the      *)
(* single-threaded event loop runs each handler to completion.             *)
(*                                                                         *)
(* Identifiers.  A participant id is a fresh uuid per join; the model      *)
(* names the participant of the n-th successful join n (joinOrder n-1).    *)
(* A socket id is unique per connection, so a connection is identified by  *)
(* the participant whose record holds its id (_getPlayerIdBySocket), or by *)
(* NoPlayer when no record of the room names it.  `online` is the set of   *)
(* participants whose recorded connection is still open.  A connection     *)
(* that already resolves to a participant sends no join_room or            *)
(* reconnect_room.                                                         *)
(***************************************************************************)
EXTENDS Integers, Sequences, FiniteSets, TLC

\* ------------------------------------------------------------------ bounds

\* Successful joins per room, the creating host included.
MaxPlayers == 5
\* The rooms that fill a team: joins per room, and so the identifiers there are.
MaxFullPlayers == 9
\* Cards in the card pool when it is not empty.
NumCards == 2
\* Pending removal timeouts per participant (leave_room can be repeated).
MaxRemovalTimers == 2
\* leave_room and disconnect events per room.
MaxDepartures == 1
\* The rooms that lose whole teams: joins and disconnect events per room.
MaxAwayPlayers == 4
MaxAwayDepartures == 2
\* Pending post-turn callbacks (setTimeout of TURN_END_PAUSE_MS).
MaxPauseTimers == 1
\* config.TURN_DURATION_SECONDS (60) scaled down: ticks per turn.
TurnSeconds == 2
\* config.DEFAULT_SCORE_LIMIT (15) scaled down so that the pool can reach it.
ScoreLimit == 1
\* config.LOW_DECK_THRESHOLD (10) scaled down to the size of the seed pool.
LowDeckThreshold == 2
\* config.CARDS_PER_GENERATION (20) scaled down: cards one generation returns.
CardsPerGeneration == 2
\* Card ids of the model: seed cards first, then the ones generation can return.
MaxCardId == 8

\* --------------------------------------------------------------- constants

TEAM_NAMES == <<"Equipo A", "Equipo B">>
MIN_PLAYERS_PER_TEAM == 2
MAX_PLAYERS_PER_TEAM == 6
TURN_DURATION_SECONDS == TurnSeconds
DEFAULT_SCORE_LIMIT == ScoreLimit
LOW_DECK_THRESHOLD == LowDeckThreshold
CARDS_PER_GENERATION == CardsPerGeneration
winMode == "score_limit"

TeamNameSet == {TEAM_NAMES[i] : i \in 1..Len(TEAM_NAMES)}
\* Team names a join_room request may carry: the fixed ones and a wrong one.
RequestedTeams == TeamNameSet \cup {"Equipo C"}

PlayerIds == 1..MaxFullPlayers
NoPlayer == 0
CardIds == 1..NumCards
NoCard == 0
NoTeam == "none"
NoError == "none"

\* ------------------------------------------------------------------- state

VARIABLES
    room,           \* the GameRoom object
    cards,          \* CardStore.cards: the pool, a sequence of card ids
    generating,     \* CardStore._generating
    generations,    \* generateCards calls awaited by _generateInBackground
    online,         \* participants whose recorded socket is still connected
    removalTimers,  \* participant -> pending setTimeout removals armed for it
    pauseTimers,    \* pending post-turn setTimeout callbacks
    inRegistry,     \* the room is in GameManager.rooms
    laterRoom,      \* GameManager.rooms holds, under this room's code, a room
                    \* created after this one was deleted
    departures,     \* leave_room and disconnect events so far
    cardSentTo,     \* participants whose connection was sent the body of the card
                    \* in play (card_revealed)
    heldBefore,     \* history: participant -> team and host flag it held just
                    \* before its latest departure, until it is back or removed
    last            \* the last handler run and what it answered

vars == <<room, cards, generating, generations, online, removalTimers, pauseTimers, inRegistry, laterRoom,
          departures, heldBefore, cardSentTo, last>>

\* ----------------------------------------------------------------- helpers

Range(s) == {s[i] : i \in 1..Len(s)}

Min(S) == CHOOSE x \in S : \A y \in S : x <= y

\* Array.prototype.includes
Includes(s, x) == x \in Range(s)

\* Array.prototype.filter(id => id !== x)
Without(s, x) == SelectSeq(s, LAMBDA y : y # x)

\* A shuffle that picks every position independently.
ShufflesWithRepeats(s) == [1..Len(s) -> Range(s)]

\* All orders of a sequence's elements: what a Fisher-Yates shuffle can return.
Shuffles(s) ==
    {p \in [1..Len(s) -> Range(s)] : \A i, j \in 1..Len(s) : i # j => p[i] # p[j]}

\* String comparison of the two team names, as Array.prototype.sort uses it.
NameRank(n) == IF n = "Equipo A" THEN 1 ELSE IF n = "Equipo B" THEN 2 ELSE 3

\* A sort with the comparison reversed.
SortedNamesDescending(S) ==
    CHOOSE p \in [1..Cardinality(S) -> S] :
        /\ \A i, j \in 1..Cardinality(S) : i < j => NameRank(p[i]) > NameRank(p[j])

\* Object.keys(teams).sort()
SortedNames(S) ==
    CHOOSE p \in [1..Cardinality(S) -> S] :
        /\ \A i, j \in 1..Cardinality(S) : i < j => NameRank(p[i]) < NameRank(p[j])

\* What the last handler sent: the event it broadcast to the room, with the
\* winner when that event closes the game, or "error" when it answered an
\* error code to the requester alone (the code is the value of the handler's
\* ...Error operator in the state before).
Emitted(event, winner) == [event |-> event, winner |-> winner]

Rejected == [event |-> "error", winner |-> NoTeam]

\* ------------------------------------------------- GameRoom: private helpers

getActiveTeamName(r) ==
    IF r.activeTeamIndex + 1 \in 1..Len(r.teamOrder)
    THEN r.teamOrder[r.activeTeamIndex + 1]
    ELSE NoTeam

\* null when the team is undefined or has no member
getCurrentDescriberId(r) ==
    LET name == getActiveTeamName(r) IN
    IF name = NoTeam THEN NoPlayer
    ELSE LET team == r.teams[name] IN
         IF Len(team.memberIds) = 0 THEN NoPlayer
         ELSE team.memberIds[(team.describerIndex % Len(team.memberIds)) + 1]

\* The first card of the deck, used or not.
drawFirstCard(r) == IF Len(r.deck) = 0 THEN NoCard ELSE r.deck[1]

\* The first card of the deck whose id is not in the used set, or null.
drawNextCard(r) ==
    LET available == SelectSeq(r.deck, LAMBDA c : c \notin r.usedCardIds) IN
    IF Len(available) = 0 THEN NoCard ELSE available[1]

\* A win only above the limit.
checkWinConditionAbove(r) ==
    LET above == {i \in 1..Len(TEAM_NAMES) : r.teams[TEAM_NAMES[i]].score > r.scoreLimit} IN
    IF above = {} THEN NoTeam ELSE TEAM_NAMES[Min(above)]

\* The first team, in insertion order, whose score has reached the limit.
checkWinCondition(r) ==
    IF winMode = "score_limit"
    THEN LET reached == {i \in 1..Len(TEAM_NAMES) :
                            r.teams[TEAM_NAMES[i]].score >= r.scoreLimit} IN
         IF reached = {} THEN NoTeam ELSE TEAM_NAMES[Min(reached)]
    ELSE NoTeam

\* The loop of _findLeader over the teams in insertion order, from team i on.
RECURSIVE findLeaderFrom(_, _, _, _, _)
findLeaderFrom(r, i, leader, top, tie) ==
    IF i > Len(TEAM_NAMES) THEN (IF tie THEN "tie" ELSE leader)
    ELSE LET score == r.teams[TEAM_NAMES[i]].score IN
         IF leader = NoTeam \/ score > top
         THEN findLeaderFrom(r, i + 1, TEAM_NAMES[i], score, FALSE)
         ELSE IF score = top
         THEN findLeaderFrom(r, i + 1, leader, top, TRUE)
         ELSE findLeaderFrom(r, i + 1, leader, top, tie)

\* The first team with the top score, tie or not.
findLeaderFirst(r) ==
    LET top == CHOOSE i \in 1..Len(TEAM_NAMES) :
                   \A j \in 1..Len(TEAM_NAMES) :
                       /\ r.teams[TEAM_NAMES[j]].score <= r.teams[TEAM_NAMES[i]].score
                       /\ j < i => r.teams[TEAM_NAMES[j]].score < r.teams[TEAM_NAMES[i]].score
    IN TEAM_NAMES[top]

\* leader = null stands for top = -Infinity: no team seen yet.
findLeader(r) == findLeaderFrom(r, 1, NoTeam, 0, FALSE)

clearTimer(r) == [r EXCEPT !.turnTimer = FALSE]

isEmpty(r) == DOMAIN r.players = {}

\* --------------------------------------------------- GameRoom: participants

\* The error addPlayer returns, or none.
addPlayerError(r, teamName) ==
    IF teamName \notin TeamNameSet THEN "INVALID_TEAM"
    ELSE IF Len(r.teams[teamName].memberIds) >= MAX_PLAYERS_PER_TEAM THEN "TEAM_FULL"
    ELSE NoError

\* addPlayer that puts a late joiner straight into the rotation.
addPlayerIntoRotation(r, playerId, teamName, isHost) ==
    LET isSpectator == r.state = "playing"
        player == [teamName  |-> teamName,
                   isHost    |-> isHost,
                   status    |-> IF isSpectator THEN "spectating" ELSE "active",
                   joinOrder |-> r.nextJoinOrder]
        members == r.teams[teamName].memberIds
    IN [r EXCEPT
          !.lastActivityAt = "recent",
          !.players = [p \in DOMAIN r.players \cup {playerId} |->
                          IF p = playerId THEN player ELSE r.players[p]],
          !.nextJoinOrder = r.nextJoinOrder + 1,
          !.playerStats = [p \in DOMAIN r.playerStats \cup {playerId} |->
                              IF p = playerId THEN [described |-> 0, guessed |-> 0]
                              ELSE r.playerStats[p]],
          !.teams[teamName].memberIds =
              IF ~Includes(members, playerId)
              THEN Append(members, playerId) ELSE members]

\* addPlayer past its two validations.
addPlayer(r, playerId, teamName, isHost) ==
    LET isSpectator == r.state = "playing"
        player == [teamName  |-> teamName,
                   isHost    |-> isHost,
                   status    |-> IF isSpectator THEN "spectating" ELSE "active",
                   joinOrder |-> r.nextJoinOrder]
        members == r.teams[teamName].memberIds
    IN [r EXCEPT
          !.lastActivityAt = "recent",
          !.players = [p \in DOMAIN r.players \cup {playerId} |->
                          IF p = playerId THEN player ELSE r.players[p]],
          !.nextJoinOrder = r.nextJoinOrder + 1,
          !.playerStats = [p \in DOMAIN r.playerStats \cup {playerId} |->
                              IF p = playerId THEN [described |-> 0, guessed |-> 0]
                              ELSE r.playerStats[p]],
          !.teams[teamName].memberIds =
              IF ~Includes(members, playerId) /\ ~isSpectator
              THEN Append(members, playerId) ELSE members]

\* removePlayer that leaves the id in its team's memberIds.
removePlayerLeavingMember(r, playerId) ==
    IF playerId \notin DOMAIN r.players THEN r
    ELSE [r EXCEPT
            !.lastActivityAt = "recent",
            !.players = [p \in DOMAIN r.players \ {playerId} |-> r.players[p]]]

removePlayer(r, playerId) ==
    IF playerId \notin DOMAIN r.players THEN r
    ELSE LET teamName == r.players[playerId].teamName IN
         [r EXCEPT
            !.lastActivityAt = "recent",
            !.teams[teamName].memberIds = Without(r.teams[teamName].memberIds, playerId),
            !.players = [p \in DOMAIN r.players \ {playerId} |-> r.players[p]]]

\* The participants of S in joinOrder order.
RECURSIVE byJoinOrder(_, _)
byJoinOrder(r, S) ==
    IF S = {} THEN <<>>
    ELSE LET first == CHOOSE p \in S :
                         \A q \in S : r.players[p].joinOrder <= r.players[q].joinOrder
         IN <<first>> \o byJoinOrder(r, S \ {first})

\* Spectators become active and join their team's rotation, in insertion order.
RECURSIVE activateFrom(_, _)
activateFrom(r, order) ==
    IF order = <<>> THEN r
    ELSE LET p == Head(order)
             teamName == r.players[p].teamName
             members == r.teams[teamName].memberIds
             r1 == IF r.players[p].status = "spectating"
                   THEN [r EXCEPT
                           !.players[p].status = "active",
                           !.teams[teamName].memberIds =
                               IF ~Includes(members, p) THEN Append(members, p)
                               ELSE members]
                   ELSE r
         IN activateFrom(r1, Tail(order))

activateSpectators(r) == activateFrom(r, byJoinOrder(r, DOMAIN r.players))

\* delegateHost picking the newest participant instead of the oldest.
delegateCandidateNewest(r) ==
    LET others == DOMAIN r.players \ {r.hostPlayerId}
        candidates == byJoinOrder(r, {p \in others : r.players[p].status = "active"})
        spectators == byJoinOrder(r, others)
    IN IF Len(candidates) > 0 THEN candidates[Len(candidates)]
       ELSE IF Len(spectators) > 0 THEN spectators[Len(spectators)]
       ELSE NoPlayer

\* The participant delegateHost picks, or null.
delegateCandidate(r) ==
    LET others == DOMAIN r.players \ {r.hostPlayerId}
        candidates == byJoinOrder(r, {p \in others : r.players[p].status = "active"})
        spectators == byJoinOrder(r, others)
    IN IF Len(candidates) > 0 THEN candidates[1]
       ELSE IF Len(spectators) > 0 THEN spectators[1]
       ELSE NoPlayer

delegateHost(r) ==
    LET newHost == delegateCandidate(r) IN
    IF newHost = NoPlayer THEN r
    ELSE [r EXCEPT
            !.players = [p \in DOMAIN r.players |->
                            [r.players[p] EXCEPT !.isHost =
                                IF p = newHost THEN TRUE
                                ELSE IF p = r.hostPlayerId THEN FALSE
                                ELSE r.players[p].isHost]],
            !.hostPlayerId = newHost]

\* getBuzzerSocketIds, by participant: the members of the teams not active
getBuzzerIds(r) ==
    IF r.state # "playing" THEN {}
    ELSE UNION {Range(r.teams[name].memberIds) :
                   name \in DOMAIN r.teams \ {getActiveTeamName(r)}}

\* true when the participant exists; cancels the tracked removal timer
reconnectPlayer(r, playerId) ==
    [r EXCEPT !.reconnectTimers = r.reconnectTimers \ {playerId},
              !.lastActivityAt = "recent"]

\* ---------------------------------------------------------- GameRoom: start

\* canStart without its headcount test.
canStartAnyHeadcount(r, requestingPlayerId) ==
    IF requestingPlayerId # r.hostPlayerId THEN "NOT_HOST"
    ELSE IF r.state # "lobby" THEN "GAME_ALREADY_STARTED"
    ELSE NoError

\* The error canStart returns, or none.
canStart(r, requestingPlayerId) ==
    IF requestingPlayerId # r.hostPlayerId THEN "NOT_HOST"
    ELSE IF r.state # "lobby" THEN "GAME_ALREADY_STARTED"
    ELSE IF \E name \in TeamNameSet :
                Len(r.teams[name].memberIds) < MIN_PLAYERS_PER_TEAM
    THEN "NEED_MORE_PLAYERS"
    ELSE NoError

\* Scores and rotation cursors back to zero (startGame and restart).
resetTeams(teams) ==
    [name \in DOMAIN teams |-> [teams[name] EXCEPT !.score = 0, !.describerIndex = 0]]

resetStats(stats) == [p \in DOMAIN stats |-> [described |-> 0, guessed |-> 0]]

startGame(r, deck) ==
    [r EXCEPT
       !.lastActivityAt = "recent",
       !.deck = deck,
       !.usedCardIds = {},
       !.state = "playing",
       !.turnPhase = "waiting_for_describer",
       !.activeTeamIndex = 0,
       !.turnNumber = 0,
       !.teamOrder = SortedNames(DOMAIN r.teams),
       !.teams = resetTeams(r.teams),
       !.playerStats = resetStats(r.playerStats)]

\* ----------------------------------------------------------- GameRoom: turns

\* The error setDescriberReady returns, or none.
describerReadyError(r, requestingPlayerId) ==
    IF r.state # "playing" THEN "NOT_PLAYING"
    ELSE IF r.turnPhase # "waiting_for_describer" THEN "NOT_YOUR_TURN"
    ELSE IF requestingPlayerId # getCurrentDescriberId(r) THEN "NOT_YOUR_TURN"
    ELSE IF drawNextCard(r) = NoCard THEN "DECK_EMPTY"
    ELSE NoError

\* setDescriberReady past its validations.
setDescriberReady(r) ==
    [r EXCEPT
       !.lastActivityAt = "recent",
       !.currentCard = drawNextCard(r),
       !.turnPhase = "turn_active",
       !.secondsRemaining = TURN_DURATION_SECONDS]

\* tickTimer taking two seconds off at a time.
tickTimerBy2(r) ==
    IF r.secondsRemaining - 2 <= 0
    THEN [r EXCEPT !.secondsRemaining = r.secondsRemaining - 2,
                   !.turnPhase = "turn_ended"]
    ELSE [r EXCEPT !.secondsRemaining = r.secondsRemaining - 2]

tickTimer(r) ==
    IF r.secondsRemaining - 1 <= 0
    THEN [r EXCEPT !.secondsRemaining = r.secondsRemaining - 1,
                   !.turnPhase = "turn_ended"]
    ELSE [r EXCEPT !.secondsRemaining = r.secondsRemaining - 1]

\* The error scoreCard returns, or none.
scoreCardError(r, requestingPlayerId, cardId, result) ==
    IF r.state # "playing" THEN "NOT_PLAYING"
    ELSE IF r.turnPhase # "turn_active" THEN "WRONG_PHASE"
    ELSE IF r.currentCard # cardId THEN "WRONG_CARD"
    ELSE IF requestingPlayerId \notin DOMAIN r.players THEN "PLAYER_NOT_FOUND"
    ELSE LET isOnActiveTeam ==
                 r.players[requestingPlayerId].teamName = getActiveTeamName(r)
             isDescriber == requestingPlayerId = getCurrentDescriberId(r)
         IN IF result = "correct" /\ ~isOnActiveTeam THEN "NOT_YOUR_TURN"
            ELSE IF result = "buzz" /\ isOnActiveTeam THEN "CANNOT_BUZZ_OWN_TEAM"
            ELSE IF result = "skip" /\ ~isDescriber THEN "NOT_YOUR_TURN"
            ELSE NoError

\* A buzz that costs nothing.
scoreChangeFreeBuzz(result) == IF result = "correct" THEN 1 ELSE 0

\* What a result adds to the active team's score.
scoreChange(result) ==
    IF result = "correct" THEN 1 ELSE IF result = "buzz" THEN -1 ELSE 0

\* guessed for every member of the active team, the describer too.
creditStatsDescriberGuessed(r) ==
    LET describerId == getCurrentDescriberId(r)
        members == Range(r.teams[getActiveTeamName(r)].memberIds)
    IN [p \in DOMAIN r.playerStats |->
          [described |-> r.playerStats[p].described + (IF p = describerId THEN 1 ELSE 0),
           guessed   |-> r.playerStats[p].guessed + (IF p \in members THEN 1 ELSE 0)]]

\* The stats after a correct: described for the describer, guessed for the
\* other members of the active team.
creditStats(r) ==
    LET describerId == getCurrentDescriberId(r)
        members == Range(r.teams[getActiveTeamName(r)].memberIds)
    IN [p \in DOMAIN r.playerStats |->
          IF p = describerId
          THEN [r.playerStats[p] EXCEPT !.described = r.playerStats[p].described + 1]
          ELSE IF p \in members
          THEN [r.playerStats[p] EXCEPT !.guessed = r.playerStats[p].guessed + 1]
          ELSE r.playerStats[p]]

\* applyResult that leaves the scored card in play.
applyResultCardKept(r, cardId, result) ==
    LET activeTeamName == getActiveTeamName(r) IN
    [r EXCEPT
       !.teams[activeTeamName].score = r.teams[activeTeamName].score + scoreChange(result),
       !.playerStats = IF result = "correct" THEN creditStats(r) ELSE r.playerStats,
       !.usedCardIds = r.usedCardIds \cup {cardId}]

\* The score change, the stats and the used card: scoreCard up to the win check.
applyResult(r, cardId, result) ==
    LET activeTeamName == getActiveTeamName(r) IN
    [r EXCEPT
       !.teams[activeTeamName].score = r.teams[activeTeamName].score + scoreChange(result),
       !.playerStats = IF result = "correct" THEN creditStats(r) ELSE r.playerStats,
       !.usedCardIds = r.usedCardIds \cup {cardId},
       !.currentCard = NoCard]

\* The end of the game with the countdown left armed.
gameOverTimerArmed(r) == [r EXCEPT !.state = "game_over", !.turnPhase = "none"]

gameOver(r) == clearTimer([r EXCEPT !.state = "game_over", !.turnPhase = "none"])

\* scoreCard past its validations.
scoreCard(r, cardId, result) ==
    LET r1 == applyResult(r, cardId, result) IN
    IF checkWinCondition(r1) # NoTeam THEN gameOver(r1)
    ELSE IF drawNextCard(r1) = NoCard THEN gameOver(r1)
    ELSE [r1 EXCEPT !.currentCard = drawNextCard(r1), !.lastActivityAt = "recent"]

\* The winner scoreCard reports, or none while the game goes on.
scoreCardWinner(r, cardId, result) ==
    LET r1 == applyResult(r, cardId, result) IN
    IF checkWinCondition(r1) # NoTeam THEN checkWinCondition(r1)
    ELSE IF drawNextCard(r1) = NoCard
    THEN (IF checkWinCondition(r1) # NoTeam THEN checkWinCondition(r1)
          ELSE findLeader(r1))
    ELSE NoTeam

\* A turn close that drops the card in play without marking it used.
endTurnCardUnmarked(r) ==
    LET activeTeamName == getActiveTeamName(r)
        members == r.teams[activeTeamName].memberIds
        r1 == clearTimer([r EXCEPT !.currentCard = NoCard])
        r2 == [r1 EXCEPT
                 !.teams[activeTeamName].describerIndex =
                     IF Len(members) > 0
                     THEN (r.teams[activeTeamName].describerIndex + 1) % Len(members)
                     ELSE r.teams[activeTeamName].describerIndex,
                 !.activeTeamIndex = (r.activeTeamIndex + 1) % Len(r.teamOrder),
                 !.turnNumber = r.turnNumber + 1]
    IN [activateSpectators(r2) EXCEPT !.turnPhase = "waiting_for_describer",
                                      !.lastActivityAt = "recent"]

\* A turn close that keeps the same team active.
endTurnSameTeam(r) ==
    LET activeTeamName == getActiveTeamName(r)
        members == r.teams[activeTeamName].memberIds
        r1 == clearTimer([r EXCEPT
                 !.usedCardIds = IF r.currentCard # NoCard
                                 THEN r.usedCardIds \cup {r.currentCard}
                                 ELSE r.usedCardIds,
                 !.currentCard = NoCard])
        r2 == [r1 EXCEPT
                 !.teams[activeTeamName].describerIndex =
                     IF Len(members) > 0
                     THEN (r.teams[activeTeamName].describerIndex + 1) % Len(members)
                     ELSE r.teams[activeTeamName].describerIndex,
                 !.turnNumber = r.turnNumber + 1]
    IN [activateSpectators(r2) EXCEPT !.turnPhase = "waiting_for_describer",
                                      !.lastActivityAt = "recent"]

\* endTurn that leaves the countdown armed.
endTurnTimerArmed(r) ==
    LET activeTeamName == getActiveTeamName(r)
        members == r.teams[activeTeamName].memberIds
        r1 == [r EXCEPT
                 !.usedCardIds = IF r.currentCard # NoCard
                                 THEN r.usedCardIds \cup {r.currentCard}
                                 ELSE r.usedCardIds,
                 !.currentCard = NoCard]
        r2 == [r1 EXCEPT
                 !.teams[activeTeamName].describerIndex =
                     IF Len(members) > 0
                     THEN (r.teams[activeTeamName].describerIndex + 1) % Len(members)
                     ELSE r.teams[activeTeamName].describerIndex,
                 !.activeTeamIndex = (r.activeTeamIndex + 1) % Len(r.teamOrder),
                 !.turnNumber = r.turnNumber + 1]
    IN [activateSpectators(r2) EXCEPT !.turnPhase = "waiting_for_describer",
                                      !.lastActivityAt = "recent"]

\* endTurn that leaves the team's rotation cursor where it was.
endTurnCursorKept(r) ==
    LET r1 == clearTimer([r EXCEPT
                 !.usedCardIds = IF r.currentCard # NoCard
                                 THEN r.usedCardIds \cup {r.currentCard}
                                 ELSE r.usedCardIds,
                 !.currentCard = NoCard])
        r2 == [r1 EXCEPT
                 !.activeTeamIndex = (r.activeTeamIndex + 1) % Len(r.teamOrder),
                 !.turnNumber = r.turnNumber + 1]
    IN [activateSpectators(r2) EXCEPT !.turnPhase = "waiting_for_describer",
                                      !.lastActivityAt = "recent"]

endTurn(r) ==
    LET activeTeamName == getActiveTeamName(r)
        members == r.teams[activeTeamName].memberIds
        r1 == clearTimer([r EXCEPT
                 !.usedCardIds = IF r.currentCard # NoCard
                                 THEN r.usedCardIds \cup {r.currentCard}
                                 ELSE r.usedCardIds,
                 !.currentCard = NoCard])
        r2 == [r1 EXCEPT
                 !.teams[activeTeamName].describerIndex =
                     IF Len(members) > 0
                     THEN (r.teams[activeTeamName].describerIndex + 1) % Len(members)
                     ELSE r.teams[activeTeamName].describerIndex,
                 !.activeTeamIndex = (r.activeTeamIndex + 1) % Len(r.teamOrder),
                 !.turnNumber = r.turnNumber + 1]
    IN [activateSpectators(r2) EXCEPT !.turnPhase = "waiting_for_describer",
                                      !.lastActivityAt = "recent"]

\* restart that forgets to zero the per-participant stats.
restartKeepingStats(r) ==
    LET r1 == activateSpectators([r EXCEPT
                 !.state = "lobby",
                 !.turnPhase = "none",
                 !.deck = <<>>,
                 !.usedCardIds = {},
                 !.currentCard = NoCard,
                 !.turnNumber = 0,
                 !.activeTeamIndex = 0])
    IN clearTimer([r1 EXCEPT !.teams = resetTeams(r1.teams),
                             !.lastActivityAt = "recent"])

restart(r) ==
    LET r1 == activateSpectators([r EXCEPT
                 !.state = "lobby",
                 !.turnPhase = "none",
                 !.deck = <<>>,
                 !.usedCardIds = {},
                 !.currentCard = NoCard,
                 !.turnNumber = 0,
                 !.activeTeamIndex = 0])
    IN clearTimer([r1 EXCEPT
                     !.lastActivityAt = "recent",
                     !.teams = resetTeams(r1.teams),
                     !.playerStats = resetStats(r1.playerStats)])

\* ------------------------------------------------------------ initial state

\* The GameRoom constructor up to the point where it adds the creator.
emptyRoom(mode) ==
    [mode             |-> mode,
     state            |-> IF mode = "practice" THEN "practice_active" ELSE "lobby",
     turnPhase        |-> "none",
     players          |-> <<>>,
     nextJoinOrder    |-> 0,
     teams            |-> IF mode = "classic"
                          THEN [name \in TeamNameSet |->
                                  [score |-> 0, memberIds |-> <<>>, describerIndex |-> 0]]
                          ELSE <<>>,
     teamOrder        |-> <<>>,
     activeTeamIndex  |-> 0,
     deck             |-> <<>>,
     currentCard      |-> NoCard,
     usedCardIds      |-> {},
     turnTimer        |-> FALSE,
     secondsRemaining |-> 0,
     turnNumber       |-> 0,
     playerStats      |-> <<>>,
     scoreLimit       |-> DEFAULT_SCORE_LIMIT,
     hostPlayerId     |-> 1,
     lastActivityAt   |-> "recent",
     reconnectTimers  |-> {}]

\* new GameRoom(code, hostSocketId, hostPlayerId, hostPlayerName): classic
newRoom == addPlayer(emptyRoom("classic"), 1, TEAM_NAMES[1], TRUE)

\* addPracticePlayer: the creator of a practice room, on no team
addPracticePlayer(r, playerId) ==
    [r EXCEPT
       !.lastActivityAt = "recent",
       !.players = [p \in DOMAIN r.players \cup {playerId} |->
                       IF p = playerId
                       THEN [teamName |-> NoTeam, isHost |-> TRUE, status |-> "active",
                             joinOrder |-> r.nextJoinOrder]
                       ELSE r.players[p]],
       !.nextJoinOrder = r.nextJoinOrder + 1,
       !.playerStats = [p \in DOMAIN r.playerStats \cup {playerId} |->
                           IF p = playerId THEN [described |-> 0, guessed |-> 0]
                           ELSE r.playerStats[p]]]

\* new GameRoom(code, hostSocketId, hostPlayerId, hostPlayerName, mode)
newGameRoom(mode) ==
    IF mode = "practice" THEN addPracticePlayer(emptyRoom(mode), 1) ELSE newRoom

\* The error startPractice returns, or none.
startPracticeError(r, deck) ==
    IF r.mode # "practice" THEN "NOT_PRACTICE_MODE"
    ELSE IF Len(deck) = 0 THEN "DECK_EMPTY"
    ELSE NoError

\* startPractice past its validations; card is the one _drawPracticeCard picks.
startPractice(r, deck, card) ==
    [r EXCEPT
       !.deck = deck,
       !.state = "practice_active",
       !.lastActivityAt = "recent",
       !.currentCard = card]

\* config.GAME_MODES
GAME_MODES == {"classic", "practice"}
\* Modes a create_room request may carry: the two of the game and another.
RequestedModes == GAME_MODES \cup {"solo"}

\* The room GameManager.createRoom(hostSocketId, hostPlayerName) builds and
\* registers: it has no mode parameter, and passes none to the constructor.
createRoom == newGameRoom("classic")

\* What the model holds for the room while the registry has none yet.
noRoom == [emptyRoom("classic") EXCEPT !.state = "none"]

\* The seed deck as loaded: NumCards cards, or none when the seed file is missing.
SeedDecks == {<<>>, [i \in 1..NumCards |-> i]}

\* The team and the host flag of a participant's record.
heldBy(r, playerId) ==
    [teamName |-> r.players[playerId].teamName, isHost |-> r.players[playerId].isHost]

NothingHeld == [teamName |-> NoTeam, isHost |-> FALSE]

Init ==
    /\ room = newRoom
    /\ cards \in SeedDecks
    /\ online = {1}
    /\ removalTimers = [p \in PlayerIds |-> 0]
    /\ pauseTimers = 0
    /\ generating = FALSE
    /\ generations = 0
    /\ inRegistry = TRUE
    /\ laterRoom = FALSE
    /\ departures = 0
    /\ heldBefore = [p \in PlayerIds |-> NothingHeld]
    /\ cardSentTo = {}
    /\ last = Emitted("create_room", NoTeam)

\* --------------------------------------------------------------- CardStore

\* card.word of each card id.  Cards 1..3 are seed cards; 4..6 are cards as
\* generateCards returns them (fresh ids, words upper-cased); 7 and 8 carry
\* words a seed file can hold in lower case; any further card says LUNA.
cardWords == <<"GATO", "PERRO", "SOL", "GATO", "LUNA", "LUNA", "luna", "gato">>

cardWord == [c \in 1..MaxCardId |-> IF c <= Len(cardWords) THEN cardWords[c] ELSE "LUNA"]

\* String.prototype.toUpperCase on the words of the model
toUpperCase(w) ==
    CASE w = "gato" -> "GATO"
      [] w = "luna" -> "LUNA"
      [] OTHER -> w

\* CardStore._mergeCards: the new cards whose word the pool does not hold yet
\* are appended; the set of existing words is computed once, before filtering.
mergeCards(pool, newCards) ==
    LET existingWords == {toUpperCase(cardWord[pool[i]]) : i \in 1..Len(pool)}
        unique == SelectSeq(newCards,
                            LAMBDA c : toUpperCase(cardWord[c]) \notin existingWords)
    IN pool \o unique

\* Sequences of at most n distinct elements of ids.
Batches(ids, n) ==
    UNION {{b \in [1..k -> ids] : \A i, j \in 1..k : i # j => b[i] # b[j]} : k \in 0..n}

\* Ids generateCards can assign: uuidv4 values no card of the pool carries.
GeneratedIds == 4..6

\* CardStore.checkAndRefill, with _generateInBackground up to its await
startsGenerationUnmarked == Len(cards) <= LOW_DECK_THRESHOLD

startsGeneration == Len(cards) <= LOW_DECK_THRESHOLD /\ ~generating

checkAndRefill ==
    /\ generating' = (generating \/ startsGeneration)
    /\ generations' = IF startsGeneration THEN generations + 1 ELSE generations

\* ------------------------------------------------------------------ actions

\* The participants a request can come from (_getPlayerRoom): one whose
\* connection is open, or null for a connection no record names.
Requesters == online \cup {NoPlayer}

CardResults == {"correct", "buzz", "skip"}

\* A handler that answers an error by telling the whole room.
RejectToRoom(error) ==
    /\ last' = Emitted("room_updated", NoTeam)
    /\ UNCHANGED <<room, cards, generating, generations, online, removalTimers, pauseTimers, inRegistry, laterRoom, departures, heldBefore, cardSentTo>>

\* A handler that answers an error to the requester and changes nothing.
Reject(error) ==
    /\ last' = Rejected
    /\ UNCHANGED <<room, cards, generating, generations, online, removalTimers, pauseTimers, inRegistry, laterRoom, departures, heldBefore, cardSentTo>>

\* The error create_room answers, or none.  A practice room is created,
\* then started; when the start fails the room is deleted again.
CreateRoomError(mode) ==
    IF mode \notin GAME_MODES THEN "INVALID_MODE"
    ELSE IF mode = "practice" /\ Len(cards) = 0 THEN "DECK_EMPTY"
    ELSE IF mode = "practice" /\ createRoom.mode # "practice" THEN "NOT_PRACTICE_MODE"
    ELSE NoError

\* socket.on('create_room'), the registry holding no room yet
CreateRoom(mode) ==
    /\ ~inRegistry
    /\ room = noRoom
    /\ IF CreateRoomError(mode) # NoError THEN Reject(CreateRoomError(mode))
       ELSE /\ IF mode = "practice"
               THEN \E deck \in Shuffles(cards) : \E card \in Range(deck) :
                       /\ room' = startPractice(createRoom, deck, card)
                       /\ last' = Emitted("practice_started", NoTeam)
               ELSE /\ room' = createRoom
                    /\ last' = Emitted("create_room", NoTeam)
            /\ inRegistry' = TRUE
            /\ UNCHANGED <<cards, generating, generations, online, removalTimers, pauseTimers, laterRoom, departures, heldBefore, cardSentTo>>

\* socket.on('join_room') of a new participant
JoinRoomError(teamName) == addPlayerError(room, teamName)

JoinRoom(teamName) ==
    /\ inRegistry
    /\ room.nextJoinOrder < MaxFullPlayers
    /\ LET playerId == room.nextJoinOrder + 1 IN
       IF JoinRoomError(teamName) # NoError THEN Reject(JoinRoomError(teamName))
       ELSE /\ room' = addPlayer(room, playerId, teamName, FALSE)
            /\ online' = online \cup {playerId}
            /\ last' = Emitted("join_room", NoTeam)
            /\ UNCHANGED <<cards, generating, generations, removalTimers, pauseTimers, inRegistry, laterRoom, departures, heldBefore, cardSentTo>>

\* socket.on('reconnect_room'), and join_room carrying a known playerId.  It
\* comes for an unknown id, or for a participant who left or lost the connection.
ReconnectRoomError(playerId) ==
    IF playerId \notin DOMAIN room.players THEN "PLAYER_NOT_IN_ROOM" ELSE NoError

ReconnectRoom(playerId) ==
    /\ inRegistry
    /\ playerId \in online => removalTimers[playerId] > 0
    /\ IF ReconnectRoomError(playerId) # NoError THEN Reject(ReconnectRoomError(playerId))
       ELSE /\ room' = reconnectPlayer(room, playerId)
            /\ removalTimers' =
                   IF playerId \in room.reconnectTimers /\ removalTimers[playerId] > 0
                   THEN [removalTimers EXCEPT ![playerId] = @ - 1]
                   ELSE removalTimers
            /\ online' = online \cup {playerId}
            /\ last' = Emitted("reconnect_room", NoTeam)
            /\ heldBefore' = [heldBefore EXCEPT ![playerId] = NothingHeld]
            /\ UNCHANGED <<cards, generating, generations, pauseTimers, inRegistry, laterRoom, departures, cardSentTo>>

\* socket.on('start_game')
StartGameError(pid) ==
    IF canStart(room, pid) # NoError THEN canStart(room, pid)
    ELSE IF Len(cards) = 0 THEN "DECK_EMPTY"
    ELSE NoError

StartGame(pid) ==
    /\ inRegistry
    /\ IF StartGameError(pid) # NoError THEN Reject(StartGameError(pid))
       ELSE \E deck \in Shuffles(cards) :
               /\ room' = startGame(room, deck)
               /\ last' = Emitted("start_game", NoTeam)
               /\ UNCHANGED <<cards, generating, generations, online, removalTimers, pauseTimers, inRegistry, laterRoom, departures, heldBefore, cardSentTo>>

\* socket.on('describer_ready'); _startTurnTimer arms the countdown
DescriberReadyError(pid) == describerReadyError(room, pid)

DescriberReady(pid) ==
    /\ inRegistry
    /\ IF DescriberReadyError(pid) # NoError THEN Reject(DescriberReadyError(pid))
       ELSE /\ room' = [setDescriberReady(room) EXCEPT !.turnTimer = TRUE]
            /\ cardSentTo' = ({pid} \cup getBuzzerIds(room')) \cap online
            /\ last' = Emitted("describer_ready", NoTeam)
            /\ UNCHANGED <<cards, generating, generations, online, removalTimers, pauseTimers, inRegistry, laterRoom, departures, heldBefore>>

\* cardId || room.currentCard?.id
effectiveCardId(r, cardId) == IF cardId # NoCard THEN cardId ELSE r.currentCard

\* _handleCardAction for card_correct, card_buzz and card_skip
CardActionError(pid, cardId, result) ==
    scoreCardError(room, pid, effectiveCardId(room, cardId), result)

CardAction(pid, cardId, result) ==
    /\ inRegistry
    /\ effectiveCardId(room, cardId) # NoCard
    /\ LET id == effectiveCardId(room, cardId) IN
       IF CardActionError(pid, cardId, result) # NoError
       THEN Reject(CardActionError(pid, cardId, result))
       ELSE /\ room' = scoreCard(room, id, result)
            /\ cardSentTo' = IF room'.currentCard # NoCard
                             THEN ({getCurrentDescriberId(room')} \cup getBuzzerIds(room'))
                                     \cap online
                             ELSE {}
            /\ last' = Emitted(result, scoreCardWinner(room, id, result))
            /\ checkAndRefill
            /\ UNCHANGED <<cards, online, removalTimers, pauseTimers, inRegistry, laterRoom, departures, heldBefore>>

\* socket.on('play_again')
PlayAgainError(pid) == IF pid # room.hostPlayerId THEN "NOT_HOST" ELSE NoError

PlayAgain(pid) ==
    /\ inRegistry
    /\ IF PlayAgainError(pid) # NoError THEN Reject(PlayAgainError(pid))
       ELSE /\ room.state = "game_over"
            /\ room' = restart(room)
            /\ cardSentTo' = {}
            /\ last' = Emitted("play_again", NoTeam)
            /\ UNCHANGED <<cards, generating, generations, online, removalTimers, pauseTimers, inRegistry, laterRoom, departures, heldBefore>>

\* The describer left while the turn runs: _handleDisconnect closes the turn.
isActiveDescriber(r, playerId) ==
    /\ r.state = "playing"
    /\ r.turnPhase = "turn_active"
    /\ playerId = getCurrentDescriberId(r)

\* _handleDisconnect for a participant of the room, up to the removal timer
handleDisconnect(r, playerId) ==
    LET r1 == IF isActiveDescriber(r, playerId) THEN endTurn(r) ELSE r
        r2 == IF playerId = r.hostPlayerId THEN delegateHost(r1) ELSE r1
    IN [r2 EXCEPT !.reconnectTimers = r2.reconnectTimers \cup {playerId}]

Departure(op, pid) ==
    /\ inRegistry
    /\ pid \in DOMAIN room.players
    /\ removalTimers[pid] < MaxRemovalTimers
    /\ departures' = departures + 1
    /\ isActiveDescriber(room, pid) => pauseTimers < MaxPauseTimers
    /\ room' = handleDisconnect(room, pid)
    /\ removalTimers' = [removalTimers EXCEPT ![pid] = @ + 1]
    /\ pauseTimers' = IF isActiveDescriber(room, pid) THEN pauseTimers + 1 ELSE pauseTimers
    /\ heldBefore' = [heldBefore EXCEPT ![pid] = heldBy(room, pid)]
    /\ cardSentTo' = IF room'.currentCard # NoCard THEN cardSentTo ELSE {}
    /\ last' = Emitted(op, NoTeam)
    /\ UNCHANGED <<cards, generating, generations, inRegistry, laterRoom>>

\* socket.on('leave_room'): the connection stays open
LeaveRoom(pid) ==
    /\ pid \in online
    /\ Departure("leave_room", pid)
    /\ UNCHANGED online

\* socket.on('disconnect')
Disconnect(pid) ==
    /\ pid \in online
    /\ Departure("disconnect", pid)
    /\ online' = online \ {pid}

\* The callback schedulePlayerRemoval armed fires after RECONNECT_GRACE_MS:
\* removePlayer, then gameManager.deleteRoom(roomCode) when this room is empty.
\* deleteRoom destroys and removes whatever room the registry holds under the
\* code.
RemovalTimeout(playerId) ==
    /\ removalTimers[playerId] > 0
    /\ removalTimers' = [removalTimers EXCEPT ![playerId] = @ - 1]
    /\ LET r1 == removePlayer(room, playerId) IN
       /\ room' = IF isEmpty(r1) /\ inRegistry THEN clearTimer(r1) ELSE r1
       /\ inRegistry' = IF isEmpty(r1) THEN FALSE ELSE inRegistry
       /\ laterRoom' = IF isEmpty(r1) /\ ~inRegistry THEN FALSE ELSE laterRoom
    /\ online' = online \ {playerId}
    /\ last' = Emitted("removal_timeout", NoTeam)
    /\ heldBefore' = [heldBefore EXCEPT ![playerId] = NothingHeld]
    /\ cardSentTo' = cardSentTo \ {playerId}
    /\ UNCHANGED <<cards, generating, generations, pauseTimers, departures>>

\* One firing of the interval _startTurnTimer armed.
Tick ==
    /\ room.turnTimer
    /\ LET r1 == tickTimer(room)
           timedOut == room.secondsRemaining - 1 <= 0
       IN IF timedOut
          THEN /\ pauseTimers < MaxPauseTimers
               /\ room' = endTurn(clearTimer(r1))
               /\ pauseTimers' = pauseTimers + 1
               /\ IF room'.state = "game_over"
                  THEN UNCHANGED <<generating, generations>>
                  ELSE checkAndRefill
          ELSE /\ room' = r1
               /\ UNCHANGED <<pauseTimers, generating, generations>>
    /\ cardSentTo' = IF room'.currentCard # NoCard THEN cardSentTo ELSE {}
    /\ last' = Emitted("timer_tick", NoTeam)
    /\ UNCHANGED <<cards, online, removalTimers, inRegistry, laterRoom, departures, heldBefore>>

\* The post-turn callback fires after TURN_END_PAUSE_MS: it announces the
\* next turn when the room is playing, and changes nothing.
PauseTimeout ==
    /\ pauseTimers > 0
    /\ pauseTimers' = pauseTimers - 1
    /\ last' = Emitted("pause_timeout", NoTeam)
    /\ UNCHANGED <<room, cards, generating, generations, online, removalTimers, inRegistry, laterRoom, departures, heldBefore, cardSentTo>>

\* _generateInBackground after its await, generateCards having returned
\* newCards: the cards are merged and the room is told (cards_ready).
GenerationSucceeds(newCards) ==
    /\ generations > 0
    /\ cards' = mergeCards(cards, newCards)
    /\ generating' = FALSE
    /\ generations' = generations - 1
    /\ last' = Emitted("cards_ready", NoTeam)
    /\ UNCHANGED <<room, online, removalTimers, pauseTimers, inRegistry, laterRoom, departures, heldBefore, cardSentTo>>

\* _generateInBackground after its await, generateCards having thrown: the
\* failure is logged.
GenerationFails ==
    /\ generations > 0
    /\ generating' = FALSE
    /\ generations' = generations - 1
    /\ last' = Emitted("generation_failed", NoTeam)
    /\ UNCHANGED <<room, cards, online, removalTimers, pauseTimers, inRegistry, laterRoom, departures, heldBefore, cardSentTo>>

\* now - room.lastActivityAt > config.ROOM_EXPIRY_MS
expired(r) == r.lastActivityAt = "long_ago"

\* ROOM_EXPIRY_MS passes without a write of lastActivityAt.  The countdown and
\* the post-turn callback are armed by steps that write it and run out well
\* within that time, so none is pending; a removal timer can be, since
\* _handleDisconnect arms it without writing lastActivityAt.
TimePasses ==
    /\ inRegistry
    /\ ~room.turnTimer
    /\ pauseTimers = 0
    /\ ~expired(room)
    /\ room' = [room EXCEPT !.lastActivityAt = "long_ago"]
    /\ last' = Emitted("time_passes", NoTeam)
    /\ UNCHANGED <<cards, generating, generations, online, removalTimers, pauseTimers, inRegistry, laterRoom, departures, heldBefore, cardSentTo>>

\* A sweep that deletes empty rooms only.
CleanupEmptyOnly ==
    /\ inRegistry \/ laterRoom
    /\ IF inRegistry /\ isEmpty(room)
       THEN /\ room' = clearTimer(room)
            /\ inRegistry' = FALSE
       ELSE UNCHANGED <<room, inRegistry>>
    /\ last' = Emitted("cleanup", NoTeam)
    /\ UNCHANGED <<cards, generating, generations, online, removalTimers, pauseTimers, laterRoom, departures, heldBefore, cardSentTo>>

\* GameManager._cleanup, the periodic sweep of the registry: deleteRoom for
\* every room that is empty or expired.  A later room under the code has its
\* creator and is recent.
Cleanup ==
    /\ inRegistry \/ laterRoom
    /\ IF inRegistry /\ (isEmpty(room) \/ expired(room))
       THEN /\ room' = clearTimer(room)
            /\ inRegistry' = FALSE
       ELSE UNCHANGED <<room, inRegistry>>
    /\ last' = Emitted("cleanup", NoTeam)
    /\ UNCHANGED <<cards, generating, generations, online, removalTimers, pauseTimers, laterRoom, departures, heldBefore, cardSentTo>>

\* create_room by somebody else once this room is deleted: _generateCode
\* returns any code the registry does not hold, this room's code included.
CreateRoomSameCode ==
    /\ ~inRegistry
    /\ ~laterRoom
    /\ laterRoom' = TRUE
    /\ last' = Emitted("create_room", NoTeam)
    /\ UNCHANGED <<room, cards, generating, generations, online, removalTimers, pauseTimers, inRegistry, departures, heldBefore, cardSentTo>>

\* Some request of the room is answered with an error.
SomeRequestFails(teamNames, maxPlayers) ==
    /\ inRegistry
    /\ \/ \E teamName \in teamNames :
             room.nextJoinOrder < maxPlayers /\ JoinRoomError(teamName) # NoError
       \/ \E playerId \in PlayerIds :
             /\ playerId \in online => removalTimers[playerId] > 0
             /\ ReconnectRoomError(playerId) # NoError
       \/ \E pid \in Requesters : StartGameError(pid) # NoError
       \/ \E pid \in Requesters : DescriberReadyError(pid) # NoError
       \/ \E pid \in Requesters, cardId \in CardIds \cup {NoCard}, result \in CardResults :
             /\ effectiveCardId(room, cardId) # NoCard
             /\ CardActionError(pid, cardId, result) # NoError
       \/ \E pid \in Requesters : PlayAgainError(pid) # NoError

\* The step of a request answered with an error.  It leaves the same state
\* (Reject) whatever the handler and its inputs, so it is taken once.
SomeRequestRejected(teamNames, maxPlayers) ==
    IF SomeRequestFails(teamNames, maxPlayers) THEN Reject("any") ELSE FALSE

\* The steps of every handler over every input: the accepted requests handler
\* by handler, the rejected ones once, and the timers.
Next ==
    \/ \E teamName \in RequestedTeams :
          /\ room.nextJoinOrder < MaxPlayers
          /\ JoinRoomError(teamName) = NoError
          /\ JoinRoom(teamName)
    \/ \E playerId \in PlayerIds :
          ReconnectRoomError(playerId) = NoError /\ ReconnectRoom(playerId)
    \/ \E pid \in Requesters : StartGameError(pid) = NoError /\ StartGame(pid)
    \/ \E pid \in Requesters : DescriberReadyError(pid) = NoError /\ DescriberReady(pid)
    \/ \E pid \in Requesters, cardId \in CardIds \cup {NoCard}, result \in CardResults :
          CardActionError(pid, cardId, result) = NoError /\ CardAction(pid, cardId, result)
    \/ \E pid \in Requesters : PlayAgainError(pid) = NoError /\ PlayAgain(pid)
    \/ SomeRequestRejected(RequestedTeams, MaxPlayers)
    \/ \E pid \in PlayerIds : departures < MaxDepartures /\ LeaveRoom(pid)
    \/ \E pid \in PlayerIds : departures < MaxDepartures /\ Disconnect(pid)
    \/ \E playerId \in PlayerIds : RemovalTimeout(playerId)
    \/ Tick
    \/ PauseTimeout

Spec == Init /\ [][Next]_vars

\* Rooms of at most MaxAwayPlayers participants, of whom up to
\* MaxAwayDepartures lose their connection and none comes back.
NextAway ==
    \/ \E teamName \in TeamNameSet :
          room.nextJoinOrder < MaxAwayPlayers /\ JoinRoom(teamName)
    \/ \E pid \in Requesters : StartGameError(pid) = NoError /\ StartGame(pid)
    \/ \E pid \in Requesters : DescriberReadyError(pid) = NoError /\ DescriberReady(pid)
    \/ \E pid \in Requesters, cardId \in CardIds \cup {NoCard}, result \in CardResults :
          CardActionError(pid, cardId, result) = NoError /\ CardAction(pid, cardId, result)
    \/ SomeRequestRejected({}, MaxAwayPlayers)
    \/ \E pid \in PlayerIds : departures < MaxAwayDepartures /\ Disconnect(pid)
    \/ \E playerId \in PlayerIds : RemovalTimeout(playerId)
    \/ Tick
    \/ PauseTimeout

SpecAway == Init /\ [][NextAway]_vars

\* ------------------------------------------------------------------ claims

\* The sizes of the two teams' rotations, in either order.
TeamSizesAre(r, m, n) ==
    \E a, b \in TeamNameSet :
        /\ a # b
        /\ Len(r.teams[a].memberIds) = m
        /\ Len(r.teams[b].memberIds) = n

\* C1: start_game is accepted only from the current host, in lobby, with every
\* team at MIN_PLAYERS_PER_TEAM members or more; a request failing one of these
\* is rejected with NOT_HOST, GAME_ALREADY_STARTED or NEED_MORE_PLAYERS and
\* leaves the room as it was.  The host's request starts teams of sizes {2,2}
\* (given a card pool) and is refused with NEED_MORE_PLAYERS for sizes {1,3}.
C1_StartGameGate ==
    [][\A pid \in Requesters : StartGame(pid) =>
          LET isHost == pid = room.hostPlayerId
              inLobby == room.state = "lobby"
              enough == \A name \in TeamNameSet :
                            Len(room.teams[name].memberIds) >= MIN_PLAYERS_PER_TEAM
              accepted == last'.event = "start_game"
          IN /\ accepted => isHost /\ inLobby /\ enough
             /\ ~(isHost /\ inLobby /\ enough) =>
                   /\ last' = Rejected
                   /\ room' = room
                   /\ canStart(room, pid) \in
                         {"NOT_HOST", "GAME_ALREADY_STARTED", "NEED_MORE_PLAYERS"}
             /\ isHost /\ inLobby /\ TeamSizesAre(room, 2, 2) /\ Len(cards) > 0 => accepted
             /\ isHost /\ inLobby /\ TeamSizesAre(room, 1, 3) =>
                   /\ ~accepted
                   /\ canStart(room, pid) = "NEED_MORE_PLAYERS"
    ]_vars

\* A game started by the host with teams of sizes {2,2}.
C1_Witness ==
    /\ last.event = "start_game"
    /\ room.state = "playing"
    /\ TeamSizesAre(room, 2, 2)

\* C2: right after an accepted start_game the room is playing and waiting for
\* the describer, every score and every participant's stats are zero,
\* turnNumber and activeTeamIndex are 0, no card is used and teamOrder is the
\* team names in lexical order; once the game has started no step changes
\* teamOrder.
C2_StateAfterStart ==
    [][/\ last'.event = "start_game" =>
              /\ room'.state = "playing"
              /\ room'.turnPhase = "waiting_for_describer"
              /\ \A name \in TeamNameSet : room'.teams[name].score = 0
              /\ \A p \in DOMAIN room'.playerStats :
                    room'.playerStats[p] = [described |-> 0, guessed |-> 0]
              /\ room'.turnNumber = 0
              /\ room'.activeTeamIndex = 0
              /\ room'.usedCardIds = {}
              /\ room'.teamOrder = <<"Equipo A", "Equipo B">>
       /\ room.state # "lobby" => room'.teamOrder = room.teamOrder
    ]_vars

\* A game of five participants has just started.
C2_Witness ==
    /\ last.event = "start_game"
    /\ room.teamOrder = <<"Equipo A", "Equipo B">>
    /\ room.turnNumber = 0
    /\ Cardinality(DOMAIN room.players) = 5

\* The participant at the rotation cursor of the active team of a playing room.
AtCursor(r, pid) ==
    /\ r.state = "playing"
    /\ pid \in DOMAIN r.players
    /\ LET team == r.teams[getActiveTeamName(r)] IN
       /\ Len(team.memberIds) > 0
       /\ pid = team.memberIds[(team.describerIndex % Len(team.memberIds)) + 1]

\* C3: describer_ready is accepted only from the participant at the active
\* team's rotation cursor, while the room waits for the describer; it then
\* puts an unused card of the deck in play and sets secondsRemaining to
\* TURN_DURATION_SECONDS.  From anyone else, a connection of no participant
\* included, it is rejected (NOT_YOUR_TURN while the room plays) and the room
\* is unchanged.
C3_DescriberReadyGate ==
    [][\A pid \in Requesters : DescriberReady(pid) =>
          LET accepted == last'.event = "describer_ready" IN
          /\ accepted =>
                /\ AtCursor(room, pid)
                /\ room.turnPhase = "waiting_for_describer"
                /\ room'.turnPhase = "turn_active"
                /\ room'.currentCard \in Range(room.deck) \ room.usedCardIds
                /\ room'.secondsRemaining = TURN_DURATION_SECONDS
          /\ ~AtCursor(room, pid) =>
                /\ last' = Rejected
                /\ room' = room
                /\ room.state = "playing" => DescriberReadyError(pid) = "NOT_YOUR_TURN"
    ]_vars

\* C4: a card resolution is accepted only in turn_active and only when the
\* card id it carries is the id of currentCard; in turn_active a request
\* carrying any other id is rejected with WRONG_CARD, which is not the
\* out-of-turn code, and the room is unchanged.
C4_CardIdGate ==
    [][\A pid \in Requesters, cardId \in CardIds \cup {NoCard}, result \in CardResults :
          CardAction(pid, cardId, result) =>
             LET accepted == last'.event = result IN
             /\ accepted =>
                   /\ room.turnPhase = "turn_active"
                   /\ cardId = room.currentCard
             /\ room.state = "playing" /\ room.turnPhase = "turn_active"
                   /\ cardId # room.currentCard =>
                   /\ last' = Rejected
                   /\ room' = room
                   /\ CardActionError(pid, cardId, result) = "WRONG_CARD"
                   /\ "WRONG_CARD" # "NOT_YOUR_TURN"
    ]_vars

\* The members of a team: the participants in its rotation.
Members(r, name) == Range(r.teams[name].memberIds)

\* Who may submit a result, by the result's type.
Authorized(r, pid, result) ==
    /\ r.state = "playing"
    /\ LET active == getActiveTeamName(r) IN
       \/ result = "correct" /\ pid \in Members(r, active)
       \/ result = "buzz" /\ \E name \in TeamNameSet \ {active} : pid \in Members(r, name)
       \/ result = "skip" /\ AtCursor(r, pid)

\* C5: a correct is accepted only from a member of the active team, a buzz
\* only from a member of a non-active team, a skip only from the current
\* describer; a request from anyone else is rejected and changes nothing.
C5_Authorization ==
    [][\A pid \in Requesters, cardId \in CardIds \cup {NoCard}, result \in CardResults :
          CardAction(pid, cardId, result) =>
             /\ last'.event = result => Authorized(room, pid, result)
             /\ ~Authorized(room, pid, result) => last' = Rejected /\ room' = room
    ]_vars

\* C6: an accepted correct adds 1 to the active team's score, an accepted
\* buzz subtracts 1 from it, an accepted skip leaves it; no card resolution
\* changes the score of a non-active team.
C6_ScoreChange ==
    [][\A result \in CardResults : last'.event = result =>
          LET active == getActiveTeamName(room) IN
          /\ room'.teams[active].score = room.teams[active].score +
                (IF result = "correct" THEN 1 ELSE IF result = "buzz" THEN -1 ELSE 0)
          /\ \A name \in TeamNameSet \ {active} :
                room'.teams[name].score = room.teams[name].score
    ]_vars

\* A buzz has cost the active team a point.
C6_Witness ==
    /\ last.event = "buzz"
    /\ \E name \in TeamNameSet : room.teams[name].score = -1

\* C7: an accepted correct adds 1 to described of the current describer and 1
\* to guessed of every other member of the active team's rotation, which is
\* one counter per member of the team (the describer is one of them), and
\* changes no other stats; an accepted buzz or skip changes no stats.
C7_StatsCredit ==
    [][\A result \in CardResults : last'.event = result =>
          LET active == getActiveTeamName(room)
              describer == getCurrentDescriberId(room)
              before == room.playerStats
              after == room'.playerStats
          IN IF result = "correct"
             THEN /\ DOMAIN after = DOMAIN before
                  /\ Members(room, active) # {} => describer \in Members(room, active)
                  /\ \A p \in DOMAIN before :
                        /\ after[p].described = before[p].described +
                              (IF p = describer THEN 1 ELSE 0)
                        /\ after[p].guessed = before[p].guessed +
                              (IF p \in Members(room, active) \ {describer} THEN 1 ELSE 0)
                  /\ Cardinality({p \in DOMAIN before : after[p] # before[p]}) =
                        Len(room.teams[active].memberIds)
             ELSE after = before
    ]_vars

\* A correct has credited a describer and a guesser.
C7_Witness ==
    /\ last.event = "correct"
    /\ \E p, q \in DOMAIN room.playerStats :
          /\ room.playerStats[p] = [described |-> 1, guessed |-> 0]
          /\ room.playerStats[q] = [described |-> 0, guessed |-> 1]

\* C8: a card put in play is not in the used set, before or after the step
\* that draws it; a card that leaves play is in the used set; and the used set
\* only grows until the next start or restart.  So no card is put in play
\* twice in one game.
C8_NoCardTwice ==
    [][/\ room'.currentCard # NoCard =>
             /\ room'.currentCard \notin room'.usedCardIds
             /\ room'.currentCard # room.currentCard =>
                   room'.currentCard \notin room.usedCardIds
       /\ room.currentCard # NoCard /\ room'.currentCard # room.currentCard =>
             room.currentCard \in room'.usedCardIds
       /\ last'.event \notin {"start_game", "play_again"} =>
             room.usedCardIds \subseteq room'.usedCardIds
    ]_vars

\* A second card is in play after the first one was resolved.
C8_Witness ==
    /\ room.currentCard # NoCard
    /\ room.usedCardIds # {}
    /\ last.event \in CardResults

\* C9: the correct that takes a team's score to scoreLimit ends the game in
\* that step (game_over, no phase, no countdown) with that team as winner;
\* from then on every card action and describer_ready is rejected and no step
\* but a restart changes a score; a playing room has every score below
\* scoreLimit.
C9_ScoreLimitWin ==
    [][/\ \A name \in TeamNameSet :
             last'.event = "correct" /\ room'.teams[name].score >= room.scoreLimit =>
                /\ room'.state = "game_over"
                /\ room'.turnPhase = "none"
                /\ ~room'.turnTimer
                /\ last'.winner = name
       /\ room.state = "game_over" =>
             /\ \A pid \in Requesters, cardId \in CardIds \cup {NoCard},
                   result \in CardResults :
                   CardAction(pid, cardId, result) => last' = Rejected /\ room' = room
             /\ \A pid \in Requesters :
                   DescriberReady(pid) => last' = Rejected /\ room' = room
             /\ last'.event # "play_again" =>
                   \A name \in TeamNameSet :
                       room'.teams[name].score = room.teams[name].score
       /\ room'.state = "playing" =>
             \A name \in TeamNameSet : room'.teams[name].score < room'.scoreLimit
    ]_vars

\* A correct has won the game while the deck still holds an unused card.
C9_Witness ==
    /\ last.event = "correct"
    /\ last.winner \in TeamNameSet
    /\ room.state = "game_over"
    /\ room.teams[last.winner].score = room.scoreLimit
    /\ drawNextCard(room) # NoCard

\* C10: an accepted card resolution after which every card of the deck is
\* used and no team has reached the limit ends the game in that step; the
\* winner it reports is the team with the strictly higher score, or "tie" for
\* equal scores, and the step is a scored card, not an error.
C10_DeckExhausted ==
    [][\A result \in CardResults :
          /\ last'.event = result
          /\ Range(room.deck) \subseteq room'.usedCardIds
          /\ \A name \in TeamNameSet : room'.teams[name].score < room.scoreLimit
          => LET a == room'.teams[TEAM_NAMES[1]].score
                 b == room'.teams[TEAM_NAMES[2]].score
             IN /\ room'.state = "game_over"
                /\ room'.turnPhase = "none"
                /\ last'.event # "error"
                /\ last'.winner = IF a > b THEN TEAM_NAMES[1]
                                  ELSE IF b > a THEN TEAM_NAMES[2]
                                  ELSE "tie"
    ]_vars

\* The deck ran out on equal scores.
C10_Witness ==
    /\ last.event \in CardResults
    /\ last.winner = "tie"
    /\ room.state = "game_over"
    /\ Range(room.deck) \subseteq room.usedCardIds

\* C11: a playing room always has an unused card in its deck: when the last
\* card is used, by a resolution or by a turn close, the game is over, and
\* describer_ready is never answered DECK_EMPTY in a playing room.
C11_ExhaustionEndsGame ==
    room.state = "playing" =>
       /\ ~(Range(room.deck) \subseteq room.usedCardIds)
       /\ \A pid \in Requesters : DescriberReadyError(pid) # "DECK_EMPTY"

\* A step that closes the turn: the countdown reaches zero, or the describer
\* of the running turn leaves or loses the connection.
TurnClose ==
    \/ Tick /\ room.secondsRemaining - 1 <= 0
    \/ \E pid \in PlayerIds :
          isActiveDescriber(room, pid) /\ (LeaveRoom(pid) \/ Disconnect(pid))

\* C12: every turn close advances activeTeamIndex by one modulo the number of
\* teams, so the active team after the close is not the one before it; and
\* between turn closes only a start or a restart sets activeTeamIndex.
C12_TeamAlternates ==
    [][/\ TurnClose =>
             /\ room'.activeTeamIndex = (room.activeTeamIndex + 1) % Len(room.teamOrder)
             /\ getActiveTeamName(room') # getActiveTeamName(room)
       /\ ~TurnClose /\ last'.event \notin {"start_game", "play_again"} =>
             room'.activeTeamIndex = room.activeTeamIndex
    ]_vars

\* Two turns were closed: the first team is active again.
C12_Witness ==
    /\ room.state = "playing"
    /\ room.turnNumber = 2
    /\ room.activeTeamIndex = 0

\* C13: a turn close adds the card in play to the used set and leaves no card
\* in play and the deck as it was; it advances the closing team's
\* describerIndex by one modulo the team's member count and turnNumber by one;
\* it changes no score, no participant's stats and no other team's cursor.
C13_TurnCloseEffects ==
    [][TurnClose =>
          LET name == getActiveTeamName(room)
              n == Len(room.teams[name].memberIds)
          IN /\ room'.usedCardIds = room.usedCardIds \cup
                    (IF room.currentCard # NoCard THEN {room.currentCard} ELSE {})
             /\ room'.currentCard = NoCard
             /\ room'.deck = room.deck
             /\ n > 0 => room'.teams[name].describerIndex =
                             (room.teams[name].describerIndex + 1) % n
             /\ \A other \in TeamNameSet \ {name} :
                   room'.teams[other].describerIndex = room.teams[other].describerIndex
             /\ room'.turnNumber = room.turnNumber + 1
             /\ \A team \in TeamNameSet : room'.teams[team].score = room.teams[team].score
             /\ room'.playerStats = room.playerStats
    ]_vars

\* A turn was closed with a card in play and the cursor moved to the second
\* member.
C13_Witness ==
    /\ room.state = "playing"
    /\ room.turnNumber = 1
    /\ room.currentCard = NoCard
    /\ room.usedCardIds # {}
    /\ room.teams[TEAM_NAMES[1]].describerIndex = 1

\* C14: a turn close leaves the phase at turn_ended; the phase goes from
\* turn_ended to waiting_for_describer only when the post-turn callback fires
\* after TURN_END_PAUSE_MS; and while that callback is pending no
\* describer_ready is accepted.
C14_PauseBeforeNextTurn ==
    [][/\ TurnClose => room'.turnPhase = "turn_ended"
       /\ room.turnPhase = "turn_ended" /\ room'.turnPhase = "waiting_for_describer" =>
             PauseTimeout
       /\ pauseTimers > 0 =>
             \A pid \in Requesters :
                 DescriberReady(pid) => last' = Rejected /\ room' = room
    ]_vars

\* The spectators of a room bound to a team.
SpectatorsOf(r, name) ==
    {p \in DOMAIN r.players :
        r.players[p].status = "spectating" /\ r.players[p].teamName = name}

\* C15: a participant who joins a playing room is spectating, bound to the
\* team asked for and in no team's memberIds; a spectator stays so until a
\* turn close (or the restart that follows the game); a turn close makes every
\* spectator active and appends each one once to the end of its own team's
\* memberIds, the members before it keeping their order.
C15_SpectatorsJoinAtTurnClose ==
    [][/\ \A teamName \in TeamNameSet :
             JoinRoom(teamName) /\ last'.event = "join_room" /\ room.state = "playing" =>
                LET p == room.nextJoinOrder + 1 IN
                /\ room'.players[p].status = "spectating"
                /\ room'.players[p].teamName = teamName
                /\ \A name \in TeamNameSet : p \notin Members(room', name)
       /\ \A p \in DOMAIN room'.players : \A name \in TeamNameSet :
             room'.players[p].status = "spectating" => p \notin Members(room', name)
       /\ \A p \in DOMAIN room.players \cap DOMAIN room'.players :
             /\ room.players[p].status = "spectating"
             /\ room'.players[p].status # "spectating"
             => TurnClose \/ last'.event = "play_again"
       /\ TurnClose =>
             /\ \A p \in DOMAIN room'.players : room'.players[p].status = "active"
             /\ \A name \in TeamNameSet :
                   LET before == room.teams[name].memberIds
                       after == room'.teams[name].memberIds
                   IN /\ Len(after) = Len(before) + Cardinality(SpectatorsOf(room, name))
                      /\ SubSeq(after, 1, Len(before)) = before
                      /\ Range(after) = Range(before) \cup SpectatorsOf(room, name)
    ]_vars

\* A late joiner waits outside the rotation of a playing room.
C15_Witness ==
    /\ room.state = "playing"
    /\ \E p \in DOMAIN room.players :
          /\ room.players[p].status = "spectating"
          /\ p \notin Members(room, room.players[p].teamName)


\* C17: a request to play from a connected spectator (correct, forbidden
\* word used, skip, or describer ready) is answered with an error; a request
\* answered with an error is a rejection, which changes nothing of the room:
\* scores, stats, card in play and phase stay as they were.
C17_SpectatorsCannotPlay ==
    \A pid \in Requesters \cap DOMAIN room.players :
       room.players[pid].status = "spectating" =>
          /\ DescriberReadyError(pid) # NoError
          /\ \A cardId \in CardIds \cup {NoCard}, result \in CardResults :
                CardActionError(pid, cardId, result) # NoError

\* Connections the rooms of SpecHost lose.
MaxHostDepartures == 4

\* Rooms where participants keep dropping out, so that a host can be left
\* alone with late joiners.
NextHost ==
    \/ \E teamName \in TeamNameSet :
          room.nextJoinOrder < MaxPlayers /\ JoinRoom(teamName)
    \/ \E pid \in Requesters : StartGameError(pid) = NoError /\ StartGame(pid)
    \/ \E pid \in Requesters : DescriberReadyError(pid) = NoError /\ DescriberReady(pid)
    \/ \E pid \in PlayerIds : departures < MaxHostDepartures /\ Disconnect(pid)
    \/ \E playerId \in PlayerIds : RemovalTimeout(playerId)
    \/ Tick
    \/ PauseTimeout

SpecHost == Init /\ [][NextHost]_vars

\* The participant with the lowest join-sequence number of a set.
Oldest(r, pool) ==
    CHOOSE p \in pool : \A q \in pool : r.players[p].joinOrder <= r.players[q].joinOrder

\* C18: when the host disconnects (or leaves) and another participant is in
\* the room, in that same step the host becomes the other active participant
\* with the lowest join-sequence number, or the spectator with the lowest
\* join-sequence number when no other participant is active; the former
\* host's flag is cleared, the new host's flag is set, and hostPlayerId names
\* the new host.
C18_HostTransfers ==
    [][\A pid \in PlayerIds :
          /\ Disconnect(pid) \/ LeaveRoom(pid)
          /\ pid = room.hostPlayerId
          /\ DOMAIN room.players \ {pid} # {}
          => LET others == DOMAIN room.players \ {pid}
                 actives == {p \in others : room.players[p].status = "active"}
                 newHost == Oldest(room, IF actives # {} THEN actives ELSE others)
             IN /\ room'.hostPlayerId = newHost
                /\ \A p \in DOMAIN room'.players :
                      room'.players[p].isHost <=> p = newHost
    ]_vars

\* The host has dropped out of a room whose other participants were all
\* spectators, and a spectator is the host.
C18_Witness ==
    /\ last.event = "disconnect"
    /\ room.hostPlayerId \in DOMAIN room.players
    /\ room.players[room.hostPlayerId].status = "spectating"
    /\ room.players[room.hostPlayerId].isHost
    /\ \E p \in DOMAIN room.players \ online :
          p # room.hostPlayerId /\ room.players[p].status = "active"

\* Participants and departures of the rooms of SpecRace.
MaxRacePlayers == 3
MaxRaceDepartures == 3

\* Lobbies whose participants leave, drop out and come back, so that one
\* participant can have more than one removal armed.
NextRace ==
    \/ \E teamName \in TeamNameSet :
          room.nextJoinOrder < MaxRacePlayers /\ JoinRoom(teamName)
    \/ \E playerId \in PlayerIds : ReconnectRoom(playerId)
    \/ \E pid \in PlayerIds : departures < MaxRaceDepartures /\ LeaveRoom(pid)
    \/ \E pid \in PlayerIds : departures < MaxRaceDepartures /\ Disconnect(pid)
    \/ \E playerId \in PlayerIds : RemovalTimeout(playerId)

SpecRace == Init /\ [][NextRace]_vars

\* C20: an accepted reconnect cancels every pending removal of that
\* participant, so no removal armed before the reconnect can fire after it;
\* a removal that fires before any reconnect deletes the record, and from
\* then on a reconnect with that identifier fails.
C20_ReconnectCancelsRemoval ==
    [][\A playerId \in PlayerIds :
          /\ ReconnectRoom(playerId) /\ last'.event = "reconnect_room"
             => removalTimers'[playerId] = 0
          /\ RemovalTimeout(playerId)
             => /\ playerId \notin DOMAIN room'.players
                /\ ReconnectRoomError(playerId)' = "PLAYER_NOT_IN_ROOM"
    ]_vars

\* C19: when a participant whose connection dropped reconnects with the same
\* identifier before its removal, the team and the host flag of its record
\* after the reconnect are those it held just before the connection dropped.
C19_ReconnectRestoresStatus ==
    [][\A playerId \in PlayerIds \ online :
          /\ ReconnectRoom(playerId)
          /\ last'.event = "reconnect_room"
          /\ heldBefore[playerId] # NothingHeld
          => heldBy(room', playerId) = heldBefore[playerId]
    ]_vars

\* Rooms that take every join they are sent, in the lobby and while a game
\* runs, so that a team can reach MAX_PLAYERS_PER_TEAM.
NextFull ==
    \/ \E teamName \in TeamNameSet :
          JoinRoomError(teamName) = NoError /\ JoinRoom(teamName)
    \/ \E teamName \in TeamNameSet :
          JoinRoomError(teamName) # NoError /\ JoinRoom(teamName)
    \/ \E pid \in Requesters : StartGameError(pid) = NoError /\ StartGame(pid)
    \/ \E pid \in Requesters : DescriberReadyError(pid) = NoError /\ DescriberReady(pid)
    \/ Tick
    \/ PauseTimeout

SpecFull == Init /\ [][NextFull]_vars

\* The participants bound to a team, spectators included.
BoundTo(r, name) == {p \in DOMAIN r.players : r.players[p].teamName = name}

\* C16: in every reachable state, a join to a team that already has
\* MAX_PLAYERS_PER_TEAM participants bound to it, spectators included, is
\* answered TEAM_FULL, and no team's memberIds holds more than
\* MAX_PLAYERS_PER_TEAM identifiers.
C16_TeamSizeCapped ==
    \A name \in TeamNameSet :
       /\ Cardinality(BoundTo(room, name)) >= MAX_PLAYERS_PER_TEAM
          => JoinRoomError(name) = "TEAM_FULL"
       /\ Len(room.teams[name].memberIds) <= MAX_PLAYERS_PER_TEAM

\* C21: when the current describer disconnects (or leaves) while the phase is
\* turn_active, that step closes the turn whatever the countdown shows: the
\* countdown is disarmed, the active team advances, the scores are unchanged
\* and turnNumber grows by one.  The turn is closed once: a step that raises
\* turnNumber starts in turn_active and ends outside it with the countdown
\* disarmed, so no later tick closes that turn again.
C21_DescriberDropClosesTurn ==
    [][/\ \A pid \in PlayerIds :
             /\ Disconnect(pid) \/ LeaveRoom(pid)
             /\ isActiveDescriber(room, pid)
             => /\ ~room'.turnTimer
                /\ room'.turnPhase # "turn_active"
                /\ room'.activeTeamIndex = (room.activeTeamIndex + 1) % Len(room.teamOrder)
                /\ \A name \in TeamNameSet : room'.teams[name].score = room.teams[name].score
                /\ room'.turnNumber = room.turnNumber + 1
       /\ room'.turnNumber # room.turnNumber /\ room'.state = "playing" /\ room.state = "playing"
             => /\ room'.turnNumber = room.turnNumber + 1
                /\ room.turnPhase = "turn_active"
                /\ room'.turnPhase # "turn_active"
                /\ ~room'.turnTimer
       /\ Tick => room.turnPhase = "turn_active"
    ]_vars

\* The first turn was closed by the describer's disconnect with the countdown
\* still at its full value.
C21_Witness ==
    /\ last.event = "disconnect"
    /\ room.state = "playing"
    /\ room.turnNumber = 1
    /\ room.secondsRemaining = TURN_DURATION_SECONDS
    /\ ~room.turnTimer
    /\ room.usedCardIds # {}

\* C22: play_again is accepted only from the host and only in game_over.
\* After it the room is in the lobby, every score and every participant's
\* stats are zero, every describerIndex and activeTeamIndex are zero, the
\* deck and the used set are empty, nobody is spectating, and the
\* participants are the same with the same team each, every one of them in
\* its team's memberIds.  A play_again from anyone else or in another state
\* changes nothing of the room.
C22_Restart ==
    [][/\ last'.event = "play_again" =>
             /\ room.state = "game_over"
             /\ room.hostPlayerId \in Requesters
             /\ PlayAgain(room.hostPlayerId)
       /\ \A pid \in Requesters : PlayAgain(pid) =>
             IF pid = room.hostPlayerId /\ room.state = "game_over"
             THEN /\ last'.event = "play_again"
                  /\ room'.state = "lobby"
                  /\ room'.activeTeamIndex = 0
                  /\ room'.deck = <<>>
                  /\ room'.usedCardIds = {}
                  /\ room'.currentCard = NoCard
                  /\ ~room'.turnTimer
                  /\ \A name \in TeamNameSet :
                        /\ room'.teams[name].score = 0
                        /\ room'.teams[name].describerIndex = 0
                        /\ Range(room'.teams[name].memberIds) = BoundTo(room', name)
                        /\ Len(room'.teams[name].memberIds) = Cardinality(BoundTo(room', name))
                        /\ SubSeq(room'.teams[name].memberIds, 1, Len(room.teams[name].memberIds))
                              = room.teams[name].memberIds
                  /\ DOMAIN room'.players = DOMAIN room.players
                  /\ DOMAIN room'.playerStats = DOMAIN room.playerStats
                  /\ \A p \in DOMAIN room'.playerStats :
                        room'.playerStats[p] = [described |-> 0, guessed |-> 0]
                  /\ \A p \in DOMAIN room.players :
                        /\ room'.players[p].status = "active"
                        /\ room'.players[p].teamName = room.players[p].teamName
                        /\ room'.players[p].isHost = room.players[p].isHost
                  /\ room'.hostPlayerId = room.hostPlayerId
             ELSE room' = room
    ]_vars

\* A room of five is back in the lobby after a game that had a late joiner.
C22_Witness ==
    /\ last.event = "play_again"
    /\ room.state = "lobby"
    /\ Cardinality(DOMAIN room.players) = 5
    /\ Len(room.teams[TEAM_NAMES[1]].memberIds) = 3
    /\ room.teams[TEAM_NAMES[1]].memberIds[3] = 5

\* C23: a post-turn callback is pending only between the turn close that
\* armed it and the next transition of the room: while one is pending the
\* room is registered, playing, and in the phase between two turns; none is
\* left pending once the next turn is started, the room is restarted or the
\* room is torn down.
C23_PauseCallbackCancelled ==
    pauseTimers > 0 =>
       /\ inRegistry
       /\ room.state = "playing"
       /\ room.turnPhase \in {"turn_ended", "waiting_for_describer"}

\* The countdown of a room is armed exactly when the room is registered,
\* playing and in turn_active.
CountdownMatchesPhase(r, registered) ==
    r.turnTimer <=> (registered /\ r.state = "playing" /\ r.turnPhase = "turn_active")

\* C24: the countdown is armed exactly while the room is in turn_active: an
\* accepted describer_ready arms it, and after a turn close, the end of the
\* game, a restart or the removal of the room from the registry none is
\* armed; a tick runs only against a room in turn_active.
C24_CountdownWhileTurnActive ==
    [][/\ CountdownMatchesPhase(room, inRegistry)
       /\ CountdownMatchesPhase(room', inRegistry')
       /\ last'.event = "describer_ready" => room'.turnTimer
       /\ Tick => room.state = "playing" /\ room.turnPhase = "turn_active" /\ inRegistry
       /\ \/ TurnClose
          \/ room'.state = "game_over"
          \/ last'.event = "play_again"
          \/ ~inRegistry'
          => ~room'.turnTimer
    ]_vars

\* A correct answer has ended the game while the countdown was running, and
\* the countdown is disarmed.
C24_Witness ==
    /\ last.event = "correct"
    /\ room.state = "game_over"
    /\ room.secondsRemaining < TURN_DURATION_SECONDS
    /\ ~room.turnTimer

\* C25: a tick takes exactly one off secondsRemaining, a card resolution
\* leaves it as it is, and only describer_ready sets it again; it stays
\* within 0..TURN_DURATION_SECONDS and is positive while the turn runs.  A
\* tick closes the turn exactly when it brings secondsRemaining to zero, that
\* is the TURN_DURATION_SECONDS-th tick of a turn nothing ended before: that
\* tick disarms the countdown and closes the turn once; any other tick leaves
\* the turn running.
C25_CountdownTicks ==
    [][/\ room'.secondsRemaining \in 0..TURN_DURATION_SECONDS
       /\ room'.turnPhase = "turn_active" => room'.secondsRemaining >= 1
       /\ Tick => room'.secondsRemaining = room.secondsRemaining - 1
       /\ last'.event \in CardResults => room'.secondsRemaining = room.secondsRemaining
       /\ room'.secondsRemaining # room.secondsRemaining =>
             \/ Tick
             \/ /\ last'.event = "describer_ready"
                /\ room'.secondsRemaining = TURN_DURATION_SECONDS
       /\ Tick /\ room'.secondsRemaining = 0 =>
             /\ ~room'.turnTimer
             /\ room'.turnPhase # "turn_active"
             /\ room'.turnNumber = room.turnNumber + 1
       /\ Tick /\ room'.secondsRemaining # 0 =>
             /\ room'.turnTimer
             /\ room'.turnPhase = "turn_active"
             /\ room'.turnNumber = room.turnNumber
             /\ room'.currentCard = room.currentCard
    ]_vars

\* The last tick has closed a turn in which a forbidden word cost a point.
C25_Witness ==
    /\ last.event = "timer_tick"
    /\ room.secondsRemaining = 0
    /\ room.turnNumber = 1
    /\ ~room.turnTimer
    /\ \E name \in TeamNameSet : room.teams[name].score = -1

\* Cards in the pool of the rooms of SpecLeak: enough for a team's second turn.
MaxLeakCards == 3

InitLeak ==
    /\ room = newRoom
    /\ cards = [i \in 1..MaxLeakCards |-> i]
    /\ online = {1}
    /\ removalTimers = [p \in PlayerIds |-> 0]
    /\ pauseTimers = 0
    /\ generating = FALSE
    /\ generations = 0
    /\ inRegistry = TRUE
    /\ laterRoom = FALSE
    /\ departures = 0
    /\ heldBefore = [p \in PlayerIds |-> NothingHeld]
    /\ cardSentTo = {}
    /\ last = Emitted("create_room", NoTeam)

\* Games that last until a team describes for the second time, with one
\* participant dropping out and being removed.
NextLeak ==
    \/ \E teamName \in TeamNameSet :
          room.nextJoinOrder < MaxPlayers /\ JoinRoom(teamName)
    \/ \E pid \in Requesters : StartGameError(pid) = NoError /\ StartGame(pid)
    \/ \E pid \in Requesters : DescriberReadyError(pid) = NoError /\ DescriberReady(pid)
    \/ \E pid \in PlayerIds : departures < MaxDepartures /\ Disconnect(pid)
    \/ \E playerId \in PlayerIds : RemovalTimeout(playerId)
    \/ Tick
    \/ PauseTimeout

SpecLeak == InitLeak /\ [][NextLeak]_vars

\* toPublicState of a classic room: what every client is sent.
toPublicState(r) ==
    [state            |-> r.state,
     players          |-> r.players,
     hostPlayerId     |-> r.hostPlayerId,
     turnPhase        |-> r.turnPhase,
     teams            |-> r.teams,
     scores           |-> [name \in DOMAIN r.teams |-> r.teams[name].score],
     teamOrder        |-> r.teamOrder,
     activeTeamIndex  |-> r.activeTeamIndex,
     turnNumber       |-> r.turnNumber,
     secondsRemaining |-> r.secondsRemaining]

\* C26: while a card is in play, nobody who was sent its body is at present
\* a participant bound to the active team other than the current describer;
\* and the public room state has no field for the card in play or the deck.
C26_CardBodyHidden ==
    /\ room.currentCard # NoCard =>
          \A p \in cardSentTo \cap DOMAIN room.players :
             room.players[p].teamName = getActiveTeamName(room)
                => p = getCurrentDescriberId(room)
    /\ DOMAIN toPublicState(room) \cap {"currentCard", "deck"} = {}

\* Everything but the record of the last answer is as it was.
NothingChanged ==
    UNCHANGED <<room, cards, generating, generations, online, removalTimers, pauseTimers, inRegistry, laterRoom, departures,
                heldBefore, cardSentTo>>

NextRequests ==
    \/ \E teamName \in RequestedTeams :
          /\ room.nextJoinOrder < MaxPlayers
          /\ JoinRoomError(teamName) = NoError
          /\ JoinRoom(teamName)
    \/ \E pid \in Requesters : StartGameError(pid) = NoError /\ StartGame(pid)
    \/ \E pid \in Requesters : DescriberReadyError(pid) = NoError /\ DescriberReady(pid)
    \/ \E pid \in Requesters, cardId \in CardIds \cup {NoCard}, result \in CardResults :
          CardActionError(pid, cardId, result) = NoError /\ CardAction(pid, cardId, result)
    \/ \E pid \in Requesters : PlayAgainError(pid) = NoError /\ PlayAgain(pid)
    \/ SomeRequestRejected(RequestedTeams, MaxPlayers)
    \/ Tick
    \/ PauseTimeout

SpecRequests == Init /\ [][NextRequests]_vars


\* ------------------------------------------------------- deck replenishment

\* Participants of the rooms of SpecStore: the fewest a game needs.
MaxStorePlayers == 4

\* A room whose players stay connected, with the replenishment of the pool:
\* the requests that are accepted, the timers of a turn, and the completion
\* of a generation with any batch of fresh cards or with a failure.
NextStore ==
    \/ \E teamName \in TeamNameSet :
          /\ room.nextJoinOrder < MaxStorePlayers
          /\ JoinRoomError(teamName) = NoError
          /\ JoinRoom(teamName)
    \/ \E pid \in Requesters : StartGameError(pid) = NoError /\ StartGame(pid)
    \/ \E pid \in Requesters : DescriberReadyError(pid) = NoError /\ DescriberReady(pid)
    \/ \E pid \in Requesters, cardId \in CardIds \cup {NoCard}, result \in CardResults :
          CardActionError(pid, cardId, result) = NoError /\ CardAction(pid, cardId, result)
    \/ \E pid \in Requesters : PlayAgainError(pid) = NoError /\ PlayAgain(pid)
    \/ Tick
    \/ PauseTimeout
    \/ \E newCards \in Batches(GeneratedIds \ Range(cards), CARDS_PER_GENERATION) :
          GenerationSucceeds(newCards)
    \/ GenerationFails

SpecStore == Init /\ [][NextStore]_vars

\* C28: at most one replenishment is in flight at any time.  A step starts
\* one only when the pool size is at or below the threshold and none is in
\* flight (marker clear), and it sets the marker; a completion, successful
\* or failed, clears the marker; a failed one leaves the pool as it was and
\* starts nothing, so that only a later check can start another.
C28_OneReplenishment ==
    /\ [](generations <= 1 /\ (generating <=> generations = 1))
    /\ [][/\ generations' > generations
             => /\ Len(cards) <= LOW_DECK_THRESHOLD
                /\ generations = 0 /\ ~generating
                /\ generations' = 1 /\ generating'
          /\ generations' < generations => ~generating' /\ generations' = 0
          /\ \A newCards \in Batches(GeneratedIds \ Range(cards), CARDS_PER_GENERATION) :
                GenerationSucceeds(newCards) => ~generating' /\ generations' = 0
          /\ GenerationFails => ~generating' /\ generations' = 0 /\ cards' = cards
          /\ Len(cards) > LOW_DECK_THRESHOLD => generations' <= generations
       ]_vars

\* A card action ran the low-watermark check while a replenishment was in
\* flight, and one is in flight still.
C28_Witness ==
    /\ generating /\ generations = 1
    /\ last.event \in CardResults
    /\ Cardinality(room.usedCardIds) = 2
    /\ Len(cards) <= LOW_DECK_THRESHOLD


\* ------------------------------------------------------------ merging cards

AllCardIds == 1..MaxCardId

\* Cards of the pools a merge is applied to in SpecMerge.
MaxPoolCards == 2

\* No two cards of the pool share a display word, whatever the case.
DistinctWords(pool) ==
    \A i, j \in 1..Len(pool) :
       i # j => toUpperCase(cardWord[pool[i]]) # toUpperCase(cardWord[pool[j]])

\* A store whose replenishment is awaited, with any pool of one or two cards
\* as a seed file can hold it.
InitMerge ==
    /\ room = newRoom
    /\ cards \in Batches(AllCardIds, MaxPoolCards) \ {<<>>}
    /\ generating = TRUE
    /\ generations = 1
    /\ online = {1}
    /\ removalTimers = [p \in PlayerIds |-> 0]
    /\ pauseTimers = 0
    /\ inRegistry = TRUE
    /\ laterRoom = FALSE
    /\ departures = 0
    /\ heldBefore = [p \in PlayerIds |-> NothingHeld]
    /\ cardSentTo = {}
    /\ last = Emitted("create_room", NoTeam)

\* The awaited generation returns any batch of cards with fresh ids.
NextMerge ==
    \E newCards \in Batches(AllCardIds \ Range(cards), CARDS_PER_GENERATION) :
       GenerationSucceeds(newCards)

SpecMerge == InitMerge /\ [][NextMerge]_vars

\* C29: merging a batch of new cards into a pool in which no two cards share
\* a display word (case-insensitively) yields a pool in which no two cards
\* share one, whatever the batch, also one that repeats a word within
\* itself; and the cards the pool held are still there, in place, unaltered.
C29_MergeDeduplicates ==
    [][\A newCards \in Batches(AllCardIds \ Range(cards), CARDS_PER_GENERATION) :
          DistinctWords(cards) /\ GenerationSucceeds(newCards)
             => /\ DistinctWords(cards')
                /\ Len(cards') >= Len(cards)
                /\ SubSeq(cards', 1, Len(cards)) = cards
      ]_vars


\* ------------------------------------------------- sessions and the pool

\* d holds the elements of s, each as many times as s does.
IsPermutation(d, s) ==
    /\ Len(d) = Len(s)
    /\ \A x \in Range(d) \cup Range(s) :
          Cardinality({i \in 1..Len(d) : d[i] = x}) = Cardinality({i \in 1..Len(s) : s[i] = x})

\* C30: a session plays on a private copy of the pool and replenishment
\* never blocks it.  The deck a start installs is a permutation of the pool
\* at that moment; a step that completes a replenishment (merging cards or
\* failing) changes neither the session's deck nor its used set, and the
\* deck stays as installed while the session is played; and while a
\* replenishment is in flight every card action, describer_ready, tick,
\* post-turn callback and play_again the room's state admits can be taken.
C30_SessionNotBlocked ==
    /\ [][/\ \A pid \in Requesters :
                StartGameError(pid) = NoError /\ StartGame(pid)
                   => IsPermutation(room'.deck, cards)
          /\ cards' # cards \/ generations' < generations
                => room'.deck = room.deck /\ room'.usedCardIds = room.usedCardIds
          /\ room.state = "playing" /\ room'.state = "playing" => room'.deck = room.deck
         ]_vars
    /\ [](generating =>
            /\ \A pid \in Requesters, cardId \in CardIds \cup {NoCard}, result \in CardResults :
                  /\ inRegistry
                  /\ effectiveCardId(room, cardId) # NoCard
                  /\ CardActionError(pid, cardId, result) = NoError
                  => ENABLED CardAction(pid, cardId, result)
            /\ \A pid \in Requesters :
                  inRegistry /\ DescriberReadyError(pid) = NoError
                     => ENABLED DescriberReady(pid)
            /\ \A pid \in Requesters :
                  inRegistry /\ PlayAgainError(pid) = NoError /\ room.state = "game_over"
                     => ENABLED PlayAgain(pid)
            /\ room.turnTimer /\ (room.secondsRemaining - 1 <= 0 => pauseTimers < MaxPauseTimers)
                  => ENABLED Tick
            /\ pauseTimers > 0 => ENABLED PauseTimeout)

\* A session goes on, on the deck it started with, after a replenishment
\* completed and enlarged the pool.
C30_Witness ==
    /\ room.state = "playing"
    /\ Len(cards) > Len(room.deck)
    /\ last.event \in CardResults
    /\ room.usedCardIds # {}


\* ------------------------------------------------------------- the registry

\* Participants and departures of the rooms of SpecRegistry.
MaxRegistryPlayers == 4
MaxRegistryDepartures == 2

\* A room from creation to deletion: the accepted requests of a game, two
\* departures with their removal callbacks, the passing of the expiry time,
\* the periodic sweep, and the reuse of the room's code once it is deleted.
NextRegistry ==
    \/ \E teamName \in TeamNameSet :
          /\ room.nextJoinOrder < MaxRegistryPlayers
          /\ JoinRoomError(teamName) = NoError
          /\ JoinRoom(teamName)
    \/ \E pid \in Requesters : StartGameError(pid) = NoError /\ StartGame(pid)
    \/ \E pid \in Requesters : DescriberReadyError(pid) = NoError /\ DescriberReady(pid)
    \/ \E pid \in Requesters, cardId \in CardIds \cup {NoCard}, result \in CardResults :
          CardActionError(pid, cardId, result) = NoError /\ CardAction(pid, cardId, result)
    \/ \E pid \in PlayerIds : departures < MaxRegistryDepartures /\ LeaveRoom(pid)
    \/ \E pid \in PlayerIds : departures < MaxRegistryDepartures /\ Disconnect(pid)
    \/ \E playerId \in PlayerIds : RemovalTimeout(playerId)
    \/ Tick
    \/ PauseTimeout
    \/ TimePasses
    \/ Cleanup
    \/ CreateRoomSameCode

SpecRegistry == Init /\ [][NextRegistry]_vars


\* C31: a room leaves the registry only if at that moment it has no
\* participants or its last activity is older than the expiry time, by the
\* periodic sweep or by a removal callback, also a callback of a room already
\* deleted whose code names a later room; and the sweep leaves a room that
\* stays as it is.  The later room has its creator and recent activity, so
\* nothing may delete it.
C31_OnlyEmptyOrExpiredDeleted ==
    [][/\ inRegistry /\ ~inRegistry' => isEmpty(room') \/ expired(room)
       /\ laterRoom => laterRoom'
       /\ Cleanup /\ inRegistry' => room' = room
      ]_vars


\* Departures of the rooms of SpecSweep.
MaxSweepDepartures == 2

\* A room that can be played again and again: the accepted requests of a
\* game and of its restart, two lost connections with their removal
\* callbacks, the passing of the expiry time and the periodic sweep.
NextSweep ==
    \/ \E teamName \in TeamNameSet :
          /\ room.nextJoinOrder < MaxRegistryPlayers
          /\ JoinRoomError(teamName) = NoError
          /\ JoinRoom(teamName)
    \/ \E pid \in Requesters : StartGameError(pid) = NoError /\ StartGame(pid)
    \/ \E pid \in Requesters : DescriberReadyError(pid) = NoError /\ DescriberReady(pid)
    \/ \E pid \in Requesters, cardId \in CardIds \cup {NoCard}, result \in CardResults :
          CardActionError(pid, cardId, result) = NoError /\ CardAction(pid, cardId, result)
    \/ \E pid \in Requesters : PlayAgainError(pid) = NoError /\ PlayAgain(pid)
    \/ \E pid \in PlayerIds : departures < MaxSweepDepartures /\ Disconnect(pid)
    \/ \E playerId \in PlayerIds : RemovalTimeout(playerId)
    \/ Tick
    \/ PauseTimeout
    \/ TimePasses
    \/ Cleanup

\* The countdown's interval can fire: Tick's guard, and every Tick changes
\* secondsRemaining or turnNumber.
TickDue ==
    /\ room.turnTimer
    /\ room.secondsRemaining - 1 <= 0 => pauseTimers < MaxPauseTimers

\* The sweep and the countdown are intervals of the process, the post-turn
\* and removal callbacks are timeouts, and time passes: each runs once it is
\* due (for the countdown, weak fairness of Tick with its guard written out).
\* Requests have no fairness: clients may stop, or go on for ever.
SpecSweep ==
    /\ Init
    /\ [][NextSweep]_vars
    /\ WF_vars(Cleanup)
    /\ WF_vars(TimePasses)
    /\ WF_vars(PauseTimeout)
    /\ []<>(~TickDue) \/ []<><<Tick>>_vars
    /\ WF_vars(\E playerId \in PlayerIds : RemovalTimeout(playerId))

InitCreate ==
    /\ room = noRoom
    /\ cards \in SeedDecks
    /\ generating = FALSE
    /\ generations = 0
    /\ online = {1}
    /\ removalTimers = [p \in PlayerIds |-> 0]
    /\ pauseTimers = 0
    /\ inRegistry = FALSE
    /\ laterRoom = FALSE
    /\ departures = 0
    /\ heldBefore = [p \in PlayerIds |-> NothingHeld]
    /\ cardSentTo = {}
    /\ last = Emitted("connection", NoTeam)

\* The creation of the room with any requested mode, and the requests and
\* timers of the room created, up to its first turn.
NextCreate ==
    \/ \E mode \in RequestedModes : CreateRoom(mode)
    \/ \E teamName \in TeamNameSet :
          /\ room.nextJoinOrder < MaxPlayers
          /\ JoinRoomError(teamName) = NoError
          /\ JoinRoom(teamName)
    \/ \E pid \in Requesters : StartGameError(pid) = NoError /\ StartGame(pid)
    \/ \E pid \in Requesters : DescriberReadyError(pid) = NoError /\ DescriberReady(pid)
    \/ Tick
    \/ PauseTimeout

SpecCreate == InitCreate /\ [][NextCreate]_vars

\* C33: the mode of a room is the one requested at creation and never
\* changes.  create_room with mode practice and a pool that is not empty
\* registers a practice room in practice_active that shows a first card;
\* create_room with mode classic registers a classic room in lobby whose
\* creator is the host, on the first team.
C33_ModeAsRequested ==
    [][/\ CreateRoom("practice") /\ Len(cards) > 0
          => /\ inRegistry'
             /\ room'.mode = "practice"
             /\ room'.state = "practice_active"
             /\ room'.currentCard # NoCard
       /\ CreateRoom("classic")
          => /\ inRegistry'
             /\ room'.mode = "classic"
             /\ room'.state = "lobby"
             /\ room'.hostPlayerId = 1
             /\ room'.players[1].isHost
             /\ room'.players[1].teamName = TEAM_NAMES[1]
             /\ room'.teams[TEAM_NAMES[1]].memberIds = <<1>>
       /\ inRegistry /\ inRegistry' => room'.mode = room.mode
      ]_vars


\* ------------------------------------------------------- the card in play

\* C34: in a classic room a card is in play exactly when the phase is
\* turn_active: there is none in lobby, while waiting for the describer,
\* after a turn close, after game over and after restart.  (The room has one
\* currentCard field, so at most one card is in play.)
C34_CardExactlyWhileTurnActive ==
    room.mode = "classic"
       => (room.currentCard # NoCard
              <=> room.state = "playing" /\ room.turnPhase = "turn_active")

\* A second card is in play in a running turn, the first being used.
C34_Witness ==
    /\ room.state = "playing" /\ room.turnPhase = "turn_active"
    /\ room.currentCard # NoCard
    /\ room.usedCardIds # {}
    /\ last.event \in CardResults


\* ---------------------------------------------------------- team membership

\* No element occurs twice in the sequence.
NoRepeats(s) == \A i, j \in 1..Len(s) : i # j => s[i] # s[j]

\* C35: in every state of a classic room no participant id occurs in two
\* teams' memberIds or twice in one, every id in a memberIds list is a
\* current participant bound to that team, and a participant is in its
\* team's memberIds exactly when its status is active.
C35_MembershipConsistent ==
    room.mode = "classic" =>
       /\ \A name \in TeamNameSet :
             LET members == room.teams[name].memberIds IN
             /\ NoRepeats(members)
             /\ \A other \in TeamNameSet \ {name} :
                   Range(members) \cap Range(room.teams[other].memberIds) = {}
             /\ \A p \in Range(members) :
                   p \in DOMAIN room.players /\ room.players[p].teamName = name
       /\ \A p \in DOMAIN room.players :
             p \in Range(room.teams[room.players[p].teamName].memberIds)
                <=> room.players[p].status = "active"

\* While a turn runs one participant is spectating, outside every memberIds
\* list, and another has been removed.
C35_Witness ==
    /\ room.state = "playing" /\ room.turnPhase = "turn_active"
    /\ \E p \in DOMAIN room.players : room.players[p].status = "spectating"
    /\ \E q \in PlayerIds : q \notin DOMAIN room.players /\ q <= room.nextJoinOrder


\* ------------------------------------------------------ the rotation cursor

\* The member the team's describerIndex resolves to (_getCurrentDescriberId's
\* arithmetic applied to the team called name).
describerOf(r, name) ==
    LET team == r.teams[name] IN
    team.memberIds[(team.describerIndex % Len(team.memberIds)) + 1]

\* C36: in every state each team's describerIndex resolves to a current
\* member of that team whenever the team has members, and is zero whenever
\* the team has none (it is reset when the membership becomes empty).
C36_CursorResolvesOrReset ==
    \A name \in TeamNameSet :
       LET team == room.teams[name] IN
       /\ Len(team.memberIds) > 0
             => /\ describerOf(room, name) \in DOMAIN room.players
                /\ room.players[describerOf(room, name)].teamName = name
                /\ room.players[describerOf(room, name)].status = "active"
       /\ Len(team.memberIds) = 0 => team.describerIndex = 0


\* ------------------------------------------------------ describer rotation

\* The member after the one the team's describerIndex resolves to, wrapping
\* to the first (endTurn's increment modulo the member count, resolved as
\* _getCurrentDescriberId resolves it).
nextMemberOf(r, name) ==
    LET team == r.teams[name]
        n == Len(team.memberIds)
    IN team.memberIds[(((team.describerIndex % n) + 1) % n) + 1]

\* This step ends a turn in which the team called name was describing.
TurnOfTeamOver(name) ==
    /\ room.state = "playing" /\ room.turnPhase = "turn_active"
    /\ getActiveTeamName(room) = name
    /\ ~(room'.state = "playing" /\ room'.turnPhase = "turn_active")

\* This step leaves the members of the team called name as they were.
SameMembers(name) ==
    /\ Len(room.teams[name].memberIds) > 0
    /\ room'.teams[name].memberIds = room.teams[name].memberIds

\* The describer of the team's next turn is the member after the describer
\* of its turn just over, and is designated until that turn.
RotationStep(name) ==
    IF TurnOfTeamOver(name)
    THEN describerOf(room', name) = nextMemberOf(room, name)
    ELSE describerOf(room', name) = describerOf(room, name)

hosts(r) == {p \in DOMAIN r.players : r.players[p].isHost}

\* C38: whenever the room has at least one participant, exactly one
\* participant has the host flag set and hostPlayerId is that participant.
C38_ExactlyOneHost ==
    DOMAIN room.players # {} => hosts(room) = {room.hostPlayerId}


\* ------------------------------------------------- the describer of a turn

\* The participants whose skip of the card in play would be accepted.
mayPass(r) ==
    {pid \in PlayerIds : scoreCardError(r, pid, r.currentCard, "skip") = NoError}

\* C39: from the step in which describer-ready succeeds until the turn is
\* closed or the game ends, the current describer stays the same participant
\* whatever happens to the others (every step that keeps the describer in the
\* room), and stays the only participant of the active team whose skip is
\* accepted.
C39_DescriberFixedDuringTurn ==
    [][/\ room.state = "playing" /\ room.turnPhase = "turn_active"
       /\ room'.state = "playing" /\ room'.turnPhase = "turn_active"
       /\ room'.turnNumber = room.turnNumber
       /\ getCurrentDescriberId(room) \in DOMAIN room'.players
       => /\ getCurrentDescriberId(room') = getCurrentDescriberId(room)
          /\ mayPass(room') = {getCurrentDescriberId(room)}]_vars


\* ------------------------------------------------ waiting for the describer

\* C40: whenever a classic game is playing and waiting for the describer, the
\* active team has at least one member, and the designated describer is a
\* participant of the room whose describer-ready would be accepted (as long
\* as the deck has a card left to draw): the game never waits for nobody.
C40_SomebodyToWaitFor ==
    /\ room.mode = "classic"
    /\ room.state = "playing" /\ room.turnPhase = "waiting_for_describer"
    => /\ Len(room.teams[getActiveTeamName(room)].memberIds) > 0
       /\ getCurrentDescriberId(room) \in DOMAIN room.players
       /\ drawNextCard(room) # NoCard
             => describerReadyError(room, getCurrentDescriberId(room)) = NoError

=============================================================================
